---- MODULE Spec2Model ----
(***************************************************************************)
(* Model of the forecast-driven setpoint / EV-charging automations of      *)
(* ha-pyscript-energy-automation (energy.py, ev_charging.py and the        *)
(* modules energy_core.py, victron.py, electricity_price.py, const.py).    *)
(*                                                                         *)
(* Number representation (the source computes with Python floats):         *)
(*   power    W                          (integer)                         *)
(*   energy   W*min, 1 kWh = 60000       (power * minutes is exact)        *)
(*   time     minutes since midnight of day 0                              *)
(*   price    EUR/1000 per kWh           (0.175 EUR = 175)                 *)
(*   spread   units of 1e-5              (0.1 = 10000)                     *)
(*   soc      centi-percent              (100 % = 10000)                   *)
(* A quotient that the source keeps as a float is kept as numerator and    *)
(* denominator where a claim compares it; Gaussian and sine are tabulated  *)
(* in 1/1000.                                                              *)
(***************************************************************************)
EXTENDS Integers, Sequences, FiniteSets, TLC

VARIABLES
    fn_in,      \* arguments of the pure function under evaluation
    fn_out,     \* its result, None before the call
    cfg,        \* arguments and sensor snapshot of one forecast_setpoint run
    sim,        \* locals of the forecast_setpoint loop
    store,      \* the home-automation state store (entities read with get)
    tasks,      \* the triggered function instances in flight
    outputs,    \* states written with set_state / service.call, in order
    clock,      \* wall clock, in ticks of TickSeconds
    last_ev_charging_phase_change   \* ev_charging.py module global

vars == <<fn_in, fn_out, cfg, sim, store, tasks, outputs, clock,
          last_ev_charging_phase_change>>

\* Python None where a number is expected, and the index of no list element
None == 0 - 2^30

\* the state of an entity that is unknown or unavailable
Unknown == "unknown"

KWh == 60000

Max(a, b) == IF a >= b THEN a ELSE b

Min(a, b) == IF a <= b THEN a ELSE b

Abs(a) == IF a >= 0 THEN a ELSE -a

\* utils.clip
clip(val, minv, maxv) == Max(minv, Min(val, maxv))

\* Python round() of the rational n/m (m > 0): nearest, ties to even
RoundDiv(n, m) ==
    LET q == n \div m
        r == n - q * m
    IN  IF 2 * r > m THEN q + 1
        ELSE IF 2 * r < m THEN q
        ELSE IF q % 2 = 0 THEN q ELSE q + 1

\* 1000 * exp(-k/8), k = 0..60
ExpTable ==
    <<1000, 882, 779, 687, 607, 535, 472, 417, 368, 325, 287, 253, 223, 197,
      174, 153, 135, 119, 105, 93, 82, 72, 64, 56, 50, 44, 39, 34, 30, 27, 24,
      21, 18, 16, 14, 13, 11, 10, 9, 8, 7, 6, 5, 5, 4, 4, 3, 3, 2, 2, 2, 2, 2,
      1, 1, 1, 1, 1, 1, 1, 1>>

\* gaussian(x, mean, std) / gaussian(0, 0, std) = exp(-((x-mean)/std)^2 / 2),
\* in 1/1000, interpolated in the table; std^2 = spread * prices_std^2
\* (spread in 1e-5), and 0 where the float underflows to nothing
gaussian_ratio(x, mean, prices_std, spread) ==
    LET d    == Abs(x - mean)
        r    == (4 * d * d * 1000) \div (prices_std * prices_std)
        q400 == IF r >= 200000 THEN 6000 ELSE (r * 10000) \div spread
        k    == q400 \div 100
        frac == q400 % 100
    IN  IF k >= 60 THEN 0
        ELSE ExpTable[k + 1] - ((ExpTable[k + 1] - ExpTable[k + 2]) * frac) \div 100

\* line 894 without the lower clip
clip_setpoint_upper_only(max_feedin, surplus_pv, min_setpoint, new_setpoint) ==
    Min(min_setpoint, new_setpoint)

\* map_setpoint line 894: the returned setpoint
clip_setpoint(max_feedin, surplus_pv, min_setpoint, new_setpoint) ==
    Max(-(max_feedin + surplus_pv), Min(min_setpoint, new_setpoint))

\* energy.py map_setpoint: the Gaussian price mapping of the setpoint
map_setpoint(setpoint, price, prices_mean, prices_std, battery_energy, battery_min_limit, pv_power, house_power, max_feedin, setpoint_spread, min_setpoint, max_setpoint, max_battery_power_target) ==
    LET std_floor == Max(50, prices_std)
        price_c   == IF price > prices_mean + std_floor
                     THEN prices_mean + std_floor ELSE price
        mean      == prices_mean + std_floor
        gaus_prob == gaussian_ratio(price_c, mean, std_floor,
                                    Max(1, setpoint_spread))
        scaled    == (gaus_prob * setpoint) \div 1000
        \* ((battery_energy - battery_min_limit) / 2 kWh)^4, in steps of 0.1 kWh
        d2        == LET d == (battery_energy - battery_min_limit) \div (KWh \div 10)
                     IN  d * d
        decayed   == (((setpoint * d2) \div 400) * d2) \div 400
        low       == IF battery_energy < battery_min_limit + 2 * KWh
                        /\ pv_power < house_power
                     THEN decayed ELSE scaled
        surplus_pv == Max(0, pv_power - house_power - max_battery_power_target)
        new_setpoint == IF surplus_pv > 0 /\ setpoint < max_setpoint
                        THEN Min(low, -surplus_pv) ELSE low
    IN  clip_setpoint(max_feedin, surplus_pv, min_setpoint, new_setpoint)

\* modules/const.py class EV
ev_capacity == 60

max_current == 16

min_current == 6

ev_phase_switch_delay == 20

\* Const.voltage, Const.min_phases and EVConst.kwh_per_100km are read by
\* energy_core.py and energy.py and set in no source file at hand
voltage == 230

min_phases == 1

kwh_per_100km == 20

\* modules/energy_core.py
HYSTERESIS_BUFFER == 500

\* ev_capacity in W*min
EvCap == ev_capacity * KWh

\* ev soc (centi-percent) of an EV energy
EvSoc(e) == e \div (EvCap \div 10000)

Hour(t) == (t \div 60) % 24

Minute(t) == t % 60

Day(t) == t \div 1440

\* electricity_price.get_price, EUR/1000
get_price(hour, minute) ==
    IF (hour = 23 /\ minute >= 30) \/ hour <= 4 \/ (hour = 5 /\ minute < 30)
    THEN 175 ELSE 255

\* electricity_price.is_low_price
is_low_price(price) == price < 200

\* energy_core._get_ev_smart_charge_limit; schedule is the departure or None
_get_ev_smart_charge_limit(schedule, t_now, active_schedule) ==
    IF schedule = None THEN 85
    ELSE LET td_hours == (schedule - t_now) \div 60
         IN  IF td_hours < 6 \/ active_schedule THEN 100
             ELSE IF td_hours < 20 THEN 98
             ELSE IF td_hours < 40 THEN 95
             ELSE IF td_hours < 60 THEN 90
             ELSE 85

\* energy_core._get_ev_energy_needed; soc in centi-percent, limit in percent
_get_ev_energy_needed(required_soc, current_soc, smart_charge_limit, smart_limiter_active) ==
    LET req == IF smart_limiter_active
               THEN Min(smart_charge_limit * 100, required_soc)
               ELSE required_soc
    IN  Max(0, (req - current_soc) * (EvCap \div 10000))

\* a current adjustment that is not clipped to its limits
calculate_charger_current_adjustment_unclipped(current_excess, target_excess, configured_phases, configured_current) ==
    RoundDiv((current_excess - target_excess) * 1000, 230 * Max(6, configured_phases))

\* energy_core.calculate_charger_current_adjustment; the excess arguments are
\* taken in the unit the caller passes, the step is 230 * max(6, phases) / 1000
calculate_charger_current_adjustment(current_excess, target_excess, configured_phases, configured_current) ==
    LET diff        == current_excess - target_excess
        upper_limit == Min(4, 16 - configured_current)
        lower_limit == Max(-4, 6 - configured_current)
        raw_adj     == RoundDiv(diff * 1000, 230 * Max(6, configured_phases))
    IN  clip(raw_adj, lower_limit, upper_limit)

\* modules/victron.py class InverterMode
InverterMode == [charger_only |-> "1", inverter_only |-> "2", on |-> "3", off |-> "4"]

\* a force charge that does not look at the limit up to which to charge
force_charge_due_below_target(electricity_price, max_charge_price, battery_soc, target_soc, charge_limit_percent) ==
    electricity_price < max_charge_price /\ battery_soc < target_soc

\* victron.get_auto_inverter_mode, line 90: the price is below the price up
\* to which to charge and the battery below its target and the charge limit
force_charge_due(electricity_price, max_charge_price, battery_soc, target_soc, charge_limit_percent) ==
    /\ electricity_price < max_charge_price
    /\ battery_soc < target_soc
    /\ battery_soc < charge_limit_percent

\* victron.get_auto_inverter_mode: <<mode, charge limit, force switch state>>,
\* the switch state "on" / "off", Unknown (and a limit of None) for Python's None
get_auto_inverter_mode(ev_is_charging, surplus_energy, pv_power, daily_avg_power, battery_soc, target_soc, electricity_price, min_discharge_price, max_charge_price, charge_limit_percent, force_charge_switch) ==
    LET min_charge_power == 6 * 230
        mode1 ==
            IF ev_is_charging
            THEN IF surplus_energy > 0
                    \/ (pv_power > min_charge_power + daily_avg_power
                        /\ battery_soc > target_soc)
                 THEN InverterMode.on
                 ELSE IF pv_power < 10 THEN InverterMode.off
                      ELSE InverterMode.charger_only
            ELSE IF electricity_price < min_discharge_price
                    /\ battery_soc < Max(500, target_soc)
                 THEN IF pv_power = 0 THEN InverterMode.off
                      ELSE InverterMode.charger_only
                 ELSE InverterMode.on
    IN  IF force_charge_due(electricity_price, max_charge_price, battery_soc,
                            target_soc, charge_limit_percent)
        THEN <<InverterMode.on, 3000, "on">>
        ELSE IF force_charge_switch THEN <<mode1, -1, "off">>
        ELSE <<mode1, None, Unknown>>

\* 1000 * sin(k * pi / 50), k = 0..25
SinTable ==
    <<0, 63, 125, 187, 249, 309, 368, 426, 482, 536, 588, 637, 685, 729, 771,
      809, 844, 876, 905, 930, 951, 969, 982, 992, 998, 1000>>

\* energy.py _get_excess_target; next_planned_drive is a time or None
_get_excess_target(battery_target_soc, battery_soc, ev_required_soc, ev_is_charging, next_planned_drive, pv_power, ev_soc, t_now, efficient_discharge) ==
    LET power_abs_max == IF efficient_discharge THEN 2500 ELSE 6000
        diff   == clip(battery_target_soc - battery_soc, -2500, 2500)
        k      == Abs(diff) \div 100
        sine   == IF k = 25 THEN 1000
                  ELSE SinTable[k + 1]
                       + ((SinTable[k + 2] - SinTable[k + 1]) * (Abs(diff) % 100)) \div 100
        power  == IF diff >= 0 THEN (sine * power_abs_max) \div 1000
                  ELSE -((sine * power_abs_max) \div 1000)
        planned_leave_soon ==
            /\ next_planned_drive # None
            /\ next_planned_drive - t_now < 24 * 60
    IN  IF ev_is_charging /\ efficient_discharge /\ ~planned_leave_soon
           /\ pv_power > 2000
        THEN IF ev_soc > ev_required_soc THEN Max(power, pv_power - 4000)
             ELSE Max(power, pv_power \div 3)
        ELSE power

\* modules/energy_core.py class ChargeAction
ChargeAction == [on |-> "on", off |-> "off"]

\* a charger that is never taken as done with charging
charge_complete_never(energy_needed, surplus) == FALSE

\* _get_charge_action line 128: no more charging is needed; surplus is the
\* surplus energy after the adjustments of lines 114-121
charge_complete(energy_needed, surplus) ==
    energy_needed <= 0 /\ surplus <= 1 * KWh

\* an emergency charge that is never due
emergency_charge_due_never(hours_available_to_charge, too_short, current_soc, required_soc) == FALSE

\* _get_charge_action lines 134-136: the time to charge is running out;
\* hours_available_to_charge in minutes, too_short is
\* hours_available_to_charge < min_hours_needed
emergency_charge_due(hours_available_to_charge, too_short, current_soc, required_soc) ==
    /\ (hours_available_to_charge < 2 * 60 \/ too_short)
    /\ current_soc < required_soc - 100

\* energy_core._get_charge_action: <<action, phases, current>>.  The two
\* states it reads itself (Victron.mode_sensor is on and the force charge
\* switch is off) are the argument battery_discharging.
_get_charge_action(next_drive, current_soc, required_soc, energy_needed, excess_power, excess_target, surplus_energy, smart_charge_limit, smart_limiter_active, configured_phases, configured_current, is_low_price_, pv_total_power, battery_soc, hysteresis, is_charging, t_now, battery_discharging) ==
    LET hours_available_to_charge ==          \* in minutes
            IF next_drive # None THEN next_drive - t_now ELSE 999 * 60
        high_price == ~is_low_price_
        \* energy_needed / (3 * voltage * (max_current - 1) / 1000) hours is
        \* energy_needed (W*min) / rate (W) minutes
        rate       == 3 * voltage * (max_current - 1)
        too_short  == hours_available_to_charge * rate < energy_needed
        hyst       == ~is_charging /\ smart_charge_limit < 100
        limit      == IF hyst THEN smart_charge_limit - 1 ELSE smart_charge_limit
        surplus    == IF hyst THEN surplus_energy - 3 * KWh - 2 * KWh
                      ELSE surplus_energy - 3 * KWh
        target     == IF hyst THEN excess_target + 1000 ELSE excess_target
        limiter    == smart_limiter_active /\ limit # 100
        off        == <<ChargeAction.off, 1, 6>>
    IN  IF charge_complete(energy_needed, surplus) THEN off
        ELSE IF limiter /\ current_soc > limit * 100 THEN off
        ELSE IF emergency_charge_due(hours_available_to_charge, too_short,
                                     current_soc, required_soc)
        THEN <<ChargeAction.on, 3, max_current>>
        ELSE IF excess_power > target /\ surplus > 0
                /\ (battery_soc > 9000 \/ pv_total_power > 1500
                    \/ hours_available_to_charge < 14 * 60)
        THEN LET available_power  == excess_power - target
                 min_3phase_power == 3 * voltage * min_current
                 phase_switch_threshold ==
                     IF configured_phases = 3 THEN min_3phase_power - hysteresis
                     ELSE min_3phase_power + hysteresis
                 current_power == configured_phases * configured_current * voltage
                 phases == IF current_power + available_power >= phase_switch_threshold
                           THEN 3 ELSE 1
                 adj == calculate_charger_current_adjustment(
                            excess_power, target, configured_phases, configured_current)
             IN  <<ChargeAction.on, phases, configured_current + adj>>
        ELSE IF is_charging /\ excess_power < target
        THEN IF configured_current = min_current
             THEN IF configured_phases > min_phases
                  THEN LET adj == calculate_charger_current_adjustment(
                                      excess_power, target, 1, max_current)
                       IN  <<ChargeAction.on, 1,
                             clip(max_current + adj, min_current, max_current)>>
                  ELSE off
             ELSE LET adj == calculate_charger_current_adjustment(
                                 excess_power, target, configured_phases,
                                 configured_current)
                  IN  <<ChargeAction.on, configured_phases,
                        Max(min_current, configured_current + adj)>>
        ELSE IF is_low_price_ /\ hours_available_to_charge < 14 * 60
        THEN IF battery_discharging
             THEN LET adj == calculate_charger_current_adjustment(
                                 excess_power, target, 3, configured_current)
                  IN  <<ChargeAction.on, 3, configured_current + adj>>
             ELSE <<ChargeAction.on, 3, max_current>>
        ELSE IF high_price /\ surplus <= 0 /\ excess_power < target
        THEN off
        ELSE off

\* utils.get with a numeric default: the state of an entity, the default
\* when it is unknown
get(st, id, default) == IF st[id] = None THEN default ELSE st[id]

\* utils.get with a bool default: "on" is True
get_bool(st, id, default) ==
    IF st[id] = Unknown THEN default ELSE st[id] \in {"on", "True"}

\* next(iter([s for s in seq if P(s)]), None), as the index of the element
FirstWhere(seq, P(_)) ==
    LET hits == {i \in DOMAIN seq : P(seq[i])}
    IN  IF hits = {} THEN None
        ELSE CHOOSE i \in hits : \A j \in hits : i <= j

RECURSIVE SumSeq(_)
SumSeq(q) == IF q = <<>> THEN 0 ELSE Head(q) + SumSeq(Tail(q))

\* floor of the square root
Isqrt(v) == CHOOSE r \in 0..1000 : r * r <= v /\ v < (r + 1) * (r + 1)

\* a schedule argument: [given |-> FALSE] is Python's None
NoSchedule == [given |-> FALSE, entries |-> <<>>]

Schedule(entries) == [given |-> TRUE, entries |-> entries]

\* a schedule that is neither None nor empty
Truthy(schedule) == schedule.given /\ schedule.entries # <<>>

\* a forecast_setpoint that takes a default period for a short forecast
no_second_period_tolerated(forecast) ==
    FALSE

\* forecast_setpoint line 975: forecast[1] of a forecast of fewer than two
\* periods raises an IndexError
no_second_period(forecast) ==
    Len(forecast) < 2

\* forecast_setpoint raises before its loop: max(0, None) on a missing
\* price (line 918), the assertion on ev_energy (lines 939-940), forecast[1]
\* of a forecast of fewer than two periods (line 975)
forecast_setpoint_raises(a) ==
    \/ \E i \in DOMAIN a.forecast : a.forecast[i].price_per_kwh = None
    \/ (a.with_ev_charging /\ a.ev_energy = None)
    \/ no_second_period(a.forecast)

\* energy.py forecast_setpoint, lines 916-986: the locals before the loop.
\* a are the arguments, st the state store.
forecast_setpoint_begin(a, st) ==
    LET n == Len(a.forecast)
        prices == [i \in 1..n |-> Max(a.min_feedin_price, a.forecast[i].price_per_kwh)]
        prices_mean == IF n > 0 THEN SumSeq(prices) \div n ELSE 0
        prices_std  == IF n > 0
                       THEN Isqrt(SumSeq([i \in 1..n |->
                                (prices[i] - prices_mean) * (prices[i] - prices_mean)]) \div n)
                       ELSE 0
        surplus == IF a.surplus_energy # None /\ a.surplus_energy # 0
                   THEN a.surplus_energy ELSE get(st, "energy_surplus", 0)
    IN  IF forecast_setpoint_raises(a)
        THEN [status |-> "raised", detail |-> <<>>]
        ELSE
        [status |-> "running",
         idx |-> 1,
         prices |-> prices,
         prices_mean |-> prices_mean,
         prices_std |-> prices_std,
         smart_charge_limit |-> 80,
         ev_required_soc |-> get(st, "ev_required_soc", 8000),
         ev_soc |-> get(st, "ev_soc", 10000),
         ev_energy |-> a.ev_energy,
         is_charging_ev |-> get_bool(st, "control_switch", FALSE),
         ongoing_drive |-> None,
         next_drive |-> IF Truthy(a.ev_schedule)
                        THEN FirstWhere(a.ev_schedule.entries, LAMBDA e : e.start > a.t_now)
                        ELSE None,
         next_drive_event |-> None,
         surplus |-> surplus,
         full_period_minutes |-> IF n >= 2
                                 THEN a.forecast[2].period_start - a.forecast[1].period_start
                                 ELSE 0,
         accumulated_energy |-> 0,
         max_feedin |-> 0,
         min_forecast_battery |-> a.battery_energy,
         max_forecast_battery |-> a.battery_energy,
         t_min_bat |-> a.t_now,
         t_max_bat |-> a.t_now,
         t_max_feedin |-> a.t_now,
         max_pv_feedin_target |-> a.max_pv_feedin_target,
         charge_phases |-> 1,
         charge_current |-> 7,
         detail |-> <<>>]

\* line 1126 without the lower clamp
clamp_battery_energy_no_floor(battery_capacity, level) ==
    Min(battery_capacity, level)

\* forecast_setpoint line 1126: the battery energy recorded for a period
clamp_battery_energy(battery_capacity, level) ==
    Max(0, Min(battery_capacity, level))

\* line 1124 taking the charge-rate cap whatever the net energy
intake_energy_capped_only(max_intake_energy, net_energy) ==
    max_intake_energy

\* forecast_setpoint line 1124: the energy the battery takes of the net energy
intake_energy(max_intake_energy, net_energy) ==
    Min(max_intake_energy, net_energy)

\* lines 1107-1108 without the floor
floor_ev_energy_absent(ev_energy) ==
    ev_energy

\* forecast_setpoint lines 1107-1108: the EV is never taken as depleted
floor_ev_energy(ev_energy) ==
    IF ev_energy # None THEN Max(5 * KWh, ev_energy) ELSE None

\* forecast_setpoint, lines 988-1003: the drives around the period and the
\* minutes of the period that lie ahead. a are the arguments, s the locals.
period_drives(a, s) ==
    LET entry == a.forecast[s.idx]
        start == entry.period_start
        has_schedule == Truthy(a.ev_schedule)
        ongoing_drive ==
            IF has_schedule
            THEN FirstWhere(a.ev_schedule.entries,
                            LAMBDA e : e.start <= start /\ start < e.end)
            ELSE s.ongoing_drive
        next_drive_event ==
            IF has_schedule /\ ongoing_drive = None
            THEN FirstWhere(a.ev_schedule.entries, LAMBDA e : e.start > start)
            ELSE s.next_drive_event
        next_required ==
            IF next_drive_event # None
            THEN a.ev_schedule.entries[next_drive_event].required_soc ELSE None
        td == Max(a.t_now - start, 0)
    IN  [start |-> start,
         pv_estimate |-> entry.pv_estimate,
         price |-> s.prices[s.idx],
         ongoing_drive |-> ongoing_drive,
         next_drive_event |-> next_drive_event,
         next_drive_start |->
            IF next_drive_event # None
            THEN a.ev_schedule.entries[next_drive_event].start ELSE None,
         ev_required_soc |->
            IF has_schedule /\ ongoing_drive = None /\ next_required \notin {None, 0}
            THEN next_required ELSE s.ev_required_soc,
         skipped |-> a.t_now > start /\ td > s.full_period_minutes,
         period_minutes |-> IF a.t_now > start THEN td ELSE s.full_period_minutes]

\* forecast_setpoint, lines 1005-1021 (with is_charging_possible, lines
\* 942-950): production, house load, what the EV asks for, the battery
period_demand(a, st, s, v) ==
    LET start == v.start
        smart_charge_limit ==
            IF v.next_drive_event # None
            THEN _get_ev_smart_charge_limit(v.next_drive_start, start, FALSE)
            ELSE s.smart_charge_limit
        smart_limiter_active == get_bool(st, "auto_charge_limit", FALSE)
        ev_energy_needed == _get_ev_energy_needed(v.ev_required_soc, s.ev_soc,
                                smart_charge_limit, smart_limiter_active)
        charger_ready == get_bool(st, "charger_ready", FALSE)
        asks_possible == ev_energy_needed > 0 /\ a.with_ev_charging
        possible_raises ==
            asks_possible
            /\ \/ ~a.ev_schedule.given
               \/ (~charger_ready /\ ~s.is_charging_ev /\ s.next_drive = None)
        is_charging_possible ==
            /\ \/ charger_ready \/ s.is_charging_ev
               \/ start > a.ev_schedule.entries[s.next_drive].end
            /\ FirstWhere(a.ev_schedule.entries,
                          LAMBDA e : e.start <= start /\ start < e.end) = None
            /\ s.ev_energy * 100 < EvCap * smart_charge_limit
        cap == a.battery_capacity
        battery_now == Min(Max(0, a.battery_energy + s.accumulated_energy), cap)
        new_battery_soc == battery_now \div (cap \div 10000)
        electricity_price == get_price(Hour(start), Minute(start))
    IN  [power_production |-> (v.pv_estimate * a.forecast_dampening) \div 100,
         house_power |-> IF 7 < Hour(start) /\ Hour(start) < 19
                         THEN get(st, "daily_average_power", 0)
                         ELSE get(st, "nightly_average_power", 0),
         smart_charge_limit |-> smart_charge_limit,
         smart_limiter_active |-> smart_limiter_active,
         ev_energy_needed |-> ev_energy_needed,
         possible_raises |-> possible_raises,
         could_charge_ev |-> asks_possible /\ ~possible_raises /\ is_charging_possible,
         battery_now |-> battery_now,
         new_battery_soc |-> new_battery_soc,
         battery_target_soc |->
            Max(500, new_battery_soc - (s.surplus \div (cap \div 10000))),
         electricity_price |-> electricity_price,
         low_price |-> is_low_price(electricity_price)]

\* forecast_setpoint, lines 1023-1086: inverter mode, excess target, the
\* charge action for the EV and the mapped setpoint
period_control(a, st, s, v, d) ==
    LET inverter == get_auto_inverter_mode(
                        s.is_charging_ev, s.surplus, d.power_production,
                        get(st, "daily_average_power", 0), d.new_battery_soc,
                        d.battery_target_soc, d.electricity_price,
                        get(st, "min_discharge_price", 0),
                        get(st, "max_charge_price", 0),
                        get(st, "force_charge_up_to", 0),
                        get_bool(st, "force_charge_switch", FALSE))
        excess_target == _get_excess_target(
                            d.battery_target_soc, d.new_battery_soc,
                            v.ev_required_soc, s.is_charging_ev,
                            v.next_drive_start, d.power_production, s.ev_soc,
                            v.start, get_bool(st, "efficient_discharge", FALSE))
        action == IF d.could_charge_ev
                  THEN _get_charge_action(
                      v.next_drive_start, s.ev_soc, v.ev_required_soc,
                      d.ev_energy_needed, d.power_production - d.house_power,
                      excess_target, s.surplus, d.smart_charge_limit,
                      d.smart_limiter_active, s.charge_phases, s.charge_current,
                      d.low_price, d.power_production, d.new_battery_soc,
                      HYSTERESIS_BUFFER, s.is_charging_ev, v.start,
                      st.mode_sensor = "on"
                          /\ ~get_bool(st, "force_charge_switch", FALSE))
                  ELSE <<ChargeAction.off, 1, 6>>
    IN  [inverter_mode |-> inverter[1],
         charge_power_limit |-> inverter[2],
         is_force_charging |-> inverter[3] = "on",
         excess_target |-> excess_target,
         charge_phases |-> action[2],
         charge_current |->
            IF d.could_charge_ev /\ action[2] # s.charge_phases
            THEN (IF action[2] = 1 THEN 8 ELSE 6) ELSE action[3],
         is_charging_ev |-> d.could_charge_ev /\ action[1] = ChargeAction.on,
         mapped |-> map_setpoint(a.setpoint, v.price, s.prices_mean, s.prices_std,
                        d.battery_now, a.battery_min_energy, d.power_production,
                        d.house_power, 4000, a.setpoint_spread, -20,
                        a.max_setpoint, a.max_battery_power_target)]

\* forecast_setpoint, lines 1088-1108: the EV over the period
period_ev(a, s, v, d, c) ==
    LET power == c.charge_phases * c.charge_current * 230
        charges == c.is_charging_ev /\ power > 1
        ev_charge_power == IF charges THEN power ELSE 0
        ev_energy_charged ==
            IF charges
            THEN Min(d.smart_charge_limit * KWh,
                     s.ev_energy + ev_charge_power * v.period_minutes)
            ELSE s.ev_energy
        drives == v.ongoing_drive # None
                  /\ a.ev_schedule.entries[v.ongoing_drive].distance \notin {None, 0}
        drive == a.ev_schedule.entries[v.ongoing_drive]
        ev_energy_driven ==
            IF drives
            THEN ev_energy_charged
                 - ((drive.distance * kwh_per_100km * (KWh \div 100)
                     * v.period_minutes)
                    \div Max(drive.end - drive.start, 60))
            ELSE ev_energy_charged
    IN  [ev_charge_power |-> ev_charge_power,
         this_setpoint |-> IF charges THEN -20 ELSE c.mapped,
         ev_soc |-> IF charges THEN EvSoc(ev_energy_charged) ELSE s.ev_soc,
         surplus |-> s.surplus - ev_charge_power * v.period_minutes,
         drive_raises |-> drives /\ ev_energy_charged = None,   \* None -= float
         ev_energy |-> floor_ev_energy(ev_energy_driven)]

\* the sign of the setpoint taken the wrong way round
power_draw_setpoint_added(house_power, this_setpoint, ev_charge_power) ==
    house_power + this_setpoint + ev_charge_power

\* forecast_setpoint, line 1110: what the house, the grid setpoint and the
\* charger take in the period
power_draw(house_power, this_setpoint, ev_charge_power) ==
    house_power - this_setpoint + ev_charge_power

\* forecast_setpoint, lines 1110-1141: the energy of the period, what the
\* battery takes of it and what is fed in
period_battery(a, s, v, d, c, e) ==
    LET cap == a.battery_capacity
        draw == power_draw(d.house_power, e.this_setpoint, e.ev_charge_power)
        net_energy == (d.power_production - draw) * v.period_minutes
        level == a.battery_energy + s.accumulated_energy
        battery_full == level + net_energy >= cap
        \* max_battery_power / 1000 * period_hours
        max_intake_energy ==
            IF battery_full /\ net_energy > 0
            THEN Min(a.battery_charge_limit * v.period_minutes, cap - level)
            ELSE Min(a.battery_charge_limit, a.max_battery_power_target)
                     * v.period_minutes
        added_battery_energy == intake_energy(max_intake_energy, net_energy)
        accumulated_energy == s.accumulated_energy + added_battery_energy
        \* min(max_battery_power, net_energy / period_hours * 1000 - feedin)
        battery_power0 == added_battery_energy \div v.period_minutes
        battery_empty == a.battery_energy + accumulated_energy <= 1 * KWh
        from_battery ==
            /\ \/ battery_empty
               \/ c.inverter_mode \in {InverterMode.off, InverterMode.charger_only}
            /\ battery_power0 < 0
        forced == c.inverter_mode \in {InverterMode.on, InverterMode.charger_only}
                  /\ c.is_force_charging
    IN  [power_draw |-> draw,
         accumulated_energy |-> accumulated_energy,
         new_battery_energy |->
            clamp_battery_energy(cap, a.battery_energy + accumulated_energy),
         \* feedin = feedin_energy / period_minutes
         feedin_energy |-> net_energy - added_battery_energy,
         battery_power |-> IF forced THEN c.charge_power_limit
                           ELSE IF from_battery THEN 0 ELSE battery_power0,
         power_from_grid |->
            IF forced THEN c.charge_power_limit + draw - d.power_production
            ELSE IF from_battery THEN -battery_power0
            ELSE Max(0, draw - d.power_production)]

\* a minimum that a later period with the same energy takes over
new_minimum_or_equal(new_battery_energy, min_forecast_battery) ==
    new_battery_energy <= min_forecast_battery

\* forecast_setpoint, line 1154: the period's battery energy is a new minimum
new_minimum(new_battery_energy, min_forecast_battery) ==
    new_battery_energy < min_forecast_battery

\* forecast_setpoint, lines 1150-1188: the extremes so far and the
\* ForecastEntry of the period
period_entry(s, v, d, c, e, b) ==
    LET start == v.start
        new_max == b.feedin_energy > s.max_feedin * v.period_minutes
        max_feedin == IF new_max THEN d.power_production - b.power_draw
                      ELSE s.max_feedin
        t_max_feedin == IF new_max THEN start ELSE s.t_max_feedin
        raise_target == max_feedin > s.max_pv_feedin_target
                        /\ (s.max_pv_feedin_target > 0 \/ Day(t_max_feedin) = Day(start))
    IN  [s EXCEPT
            !.idx = @ + 1,
            !.ongoing_drive = v.ongoing_drive,
            !.next_drive_event = v.next_drive_event,
            !.ev_required_soc = v.ev_required_soc,
            !.smart_charge_limit = d.smart_charge_limit,
            !.is_charging_ev = c.is_charging_ev,
            !.charge_phases = c.charge_phases,
            !.charge_current = c.charge_current,
            !.ev_energy = e.ev_energy,
            !.ev_soc = e.ev_soc,
            !.surplus = e.surplus,
            !.accumulated_energy = b.accumulated_energy,
            !.max_feedin = max_feedin,
            !.t_max_feedin = IF raise_target THEN start ELSE t_max_feedin,
            !.max_pv_feedin_target =
                IF raise_target THEN max_feedin ELSE s.max_pv_feedin_target,
            !.min_forecast_battery =
                IF new_minimum(b.new_battery_energy, @) THEN b.new_battery_energy ELSE @,
            !.t_min_bat =
                IF new_minimum(b.new_battery_energy, s.min_forecast_battery)
                THEN start ELSE @,
            !.max_forecast_battery =
                IF b.new_battery_energy > @ THEN b.new_battery_energy ELSE @,
            !.t_max_bat =
                IF b.new_battery_energy > s.max_forecast_battery
                THEN start + v.period_minutes ELSE @,
            !.detail = Append(@,
                [period_start |-> start,
                 pv_estimate |-> d.power_production,
                 battery_energy |-> b.new_battery_energy,
                 battery_power |-> b.battery_power,
                 house_power |-> d.house_power,
                 setpoint |-> e.this_setpoint,
                 power_draw |-> b.power_draw,
                 accumulated_energy |-> b.accumulated_energy,
                 feedin_energy |-> b.feedin_energy,
                 period_minutes |-> v.period_minutes,
                 price |-> v.price,
                 ev_energy |-> e.ev_energy,
                 ev_charge_power |-> e.ev_charge_power,
                 excess_target |-> c.excess_target,
                 surplus |-> e.surplus,
                 power_from_grid |-> b.power_from_grid])]

\* the period from the EV on, once is_charging_possible has not raised
period_from_ev(a, s, v, d, c) ==
    LET e == period_ev(a, s, v, d, c)
    IN  IF e.drive_raises THEN [s EXCEPT !.status = "raised"]
        ELSE period_entry(s, v, d, c, e, period_battery(a, s, v, d, c, e))

\* the period from the demand on, once it is not skipped
period_from_demand(a, st, s, v) ==
    LET d == period_demand(a, st, s, v)
    IN  IF d.possible_raises THEN [s EXCEPT !.status = "raised"]
        ELSE period_from_ev(a, s, v, d, period_control(a, st, s, v, d))

\* energy.py forecast_setpoint, lines 988-1189: one iteration of the loop
\* over the forecast, from the locals s to the locals after it.
forecast_setpoint_period(a, st, s) ==
    LET v == period_drives(a, s)
    IN  IF v.skipped
        THEN [s EXCEPT !.idx = @ + 1,                      \* continue
                       !.ongoing_drive = v.ongoing_drive,
                       !.next_drive_event = v.next_drive_event,
                       !.ev_required_soc = v.ev_required_soc]
        ELSE period_from_demand(a, st, s, v)

\* forecast_setpoint, lines 1194-1207: the SetpointResult of finished locals
SetpointResult(a, s) ==
    [setpoint |-> a.setpoint,
     min_bat |-> s.min_forecast_battery,
     t_min_bat |-> s.t_min_bat,
     max_bat |-> s.max_forecast_battery,
     t_max_bat |-> s.t_max_bat,
     max_feedin |-> s.max_feedin,
     t_max_feedin |-> s.t_max_feedin,
     setpoint_spread |-> a.setpoint_spread,
     prices_mean |-> s.prices_mean,
     prices_std |-> s.prices_std,
     max_battery_power_target |-> a.max_battery_power_target,
     detail |-> s.detail]

\* forecast_setpoint, lines 897-1207, from its arguments to what it returns:
\* the locals before the loop, the loop over the forecast, the result
RECURSIVE forecast_setpoint_run(_, _, _)
forecast_setpoint_run(a, st, s) ==
    IF s.status = "running" /\ s.idx <= Len(a.forecast)
    THEN forecast_setpoint_run(a, st, forecast_setpoint_period(a, st, s))
    ELSE s

NoResult == [status |-> "none"]

Raised == [status |-> "raised"]

Returned(v) == [status |-> "returned", value |-> v]

forecast_setpoint(a, st) ==
    LET s == forecast_setpoint_run(a, st, forecast_setpoint_begin(a, st))
    IN  IF s.status = "raised" THEN Raised ELSE Returned(SetpointResult(a, s))

\* the defaults of forecast_setpoint's parameters (lines 897-915)
forecast_setpoint_defaults ==
    [forecast |-> <<>>, setpoint |-> 0, battery_capacity |-> 0,
     min_feedin_price |-> 0, forecast_dampening |-> 80,
     battery_energy |-> 2 * KWh, setpoint_spread |-> 100000,
     battery_min_energy |-> 2 * KWh, battery_charge_limit |-> 6600,
     with_ev_charging |-> TRUE, ev_energy |-> None,
     max_battery_power_target |-> 4000, max_pv_feedin_target |-> 1000,
     max_setpoint |-> -20, ev_schedule |-> NoSchedule,
     surplus_energy |-> None, t_now |-> 0]

----------------------------------------------------------------------------
(* The wall clock *)

\* seconds of one tick of the clock: the shortest task.sleep of the handlers
TickSeconds == 5

\* utils.now, in minutes
now(clk) == (clk * TickSeconds) \div 60

\* ticks of a duration in seconds
Ticks(seconds) == seconds \div TickSeconds

----------------------------------------------------------------------------
(* The planned drives and the forecast with prices *)

\* date.weekday of a day, day 0 being a monday
weekday(day) == day % 7

day_map == [monday |-> 0, tuesday |-> 1, wednesday |-> 2, thursday |-> 3,
            friday |-> 4, saturday |-> 5, sunday |-> 6]

\* a schedule whose entries are left in the order of the weekdays
entries_as_parsed(entries) == entries

\* sorted(entries, key=start): stable insertion of e into a sorted list
RECURSIVE insert_by_start(_, _)
insert_by_start(sorted, e) ==
    IF sorted = <<>> THEN <<e>>
    ELSE IF e.start < Head(sorted).start THEN <<e>> \o sorted
    ELSE <<Head(sorted)>> \o insert_by_start(Tail(sorted), e)

RECURSIVE sorted_by_start(_)
sorted_by_start(entries) ==
    IF entries = <<>> THEN <<>>
    ELSE insert_by_start(sorted_by_start(SubSeq(entries, 1, Len(entries) - 1)),
                         entries[Len(entries)])

\* parse_full_schedule, lines 654-670: the entry of one event of a weekday
schedule_entry(event, event_date, default_required_soc) ==
    LET soc == event.required
        distance == event.distance
        no_soc == soc = None \/ soc = 0
        has_distance == distance # None /\ distance # 0
    IN  [start |-> event_date * 1440 + event.from,
         end |-> event_date * 1440 + event.to,
         required_soc |-> IF no_soc /\ has_distance
                          THEN (distance * kwh_per_100km * 120) \div ev_capacity
                          ELSE IF no_soc THEN default_required_soc ELSE soc,
         distance |-> distance]

\* parse_full_schedule, lines 637-672. schedule_data is the sequence of
\* <<day name, events>> of the schedule entity, today the current day.
RECURSIVE parse_days(_, _, _)
parse_days(schedule_data, default_required_soc, today) ==
    IF schedule_data = <<>> THEN <<>>
    ELSE LET day_name == Head(schedule_data)[1]
             events == Head(schedule_data)[2]
             rest == parse_days(Tail(schedule_data), default_required_soc, today)
         IN  IF day_name \notin DOMAIN day_map THEN rest
             ELSE LET day_offset == (day_map[day_name] - weekday(today) + 7) % 7
                      event_date == today + day_offset
                  IN  [i \in DOMAIN events |->
                          schedule_entry(events[i], event_date, default_required_soc)]
                      \o rest

parse_full_schedule(schedule_data, default_required_soc, today) ==
    sorted_by_start(parse_days(schedule_data, default_required_soc, today))

\* get_ev_schedule, lines 675-680
get_ev_schedule(st, t_now) ==
    parse_full_schedule(st.planned_drives, get(st, "ev_required_soc", 8000),
                        Day(t_now))

\* get_date_tuple of get_pv_forecast_with_prices
get_date_tuple(t) == <<Day(t), Hour(t), Minute(t)>>

\* the price the dict built in lines 1258-1262 holds for a period start: the
\* last entry whose start, or start plus one period, has the date tuple
price_of(epex_prices, period, start_time) ==
    LET hits == {i \in DOMAIN epex_prices :
                    \/ get_date_tuple(epex_prices[i].start_time) = get_date_tuple(start_time)
                    \/ get_date_tuple(epex_prices[i].start_time + period)
                           = get_date_tuple(start_time)}
    IN  IF hits = {} THEN None
        ELSE epex_prices[CHOOSE i \in hits : \A j \in hits : j <= i].price_per_kwh

\* get_pv_forecast_with_prices, lines 1230-1276
get_pv_forecast_with_prices(st, t_start, t_end, epex_prices) ==
    LET InWindow(el) == el.period_start > t_start - 31 /\ el.period_start < t_end
        forecast == SelectSeq(st.pv_forecast, InWindow)
    IN  IF Len(forecast) = 0 THEN Returned(<<>>)
        ELSE IF Len(forecast) < 2 THEN Raised     \* forecast[1], line 1257
        ELSE LET period == forecast[2].period_start - forecast[1].period_start
             IN  Returned([i \in DOMAIN forecast |->
                    [period_start |-> forecast[i].period_start,
                     pv_estimate |-> forecast[i].pv_estimate,
                     price_per_kwh |->
                        price_of(epex_prices, period, forecast[i].period_start)]])

----------------------------------------------------------------------------
(* forecast_surplus *)

\* get(..., 1337): the value that stands for an unavailable battery reading
unavailable == 1337

\* round(e, 2) of an energy in kWh
Round2(e) == RoundDiv(e * 100, KWh) * (KWh \div 100)

\* min([el.battery_energy for el in detail] or [0])
min_battery_energy_of(detail) ==
    IF detail = <<>> THEN 0
    ELSE LET i == CHOOSE i \in DOMAIN detail :
                    \A j \in DOMAIN detail :
                        detail[i].battery_energy <= detail[j].battery_energy
         IN  detail[i].battery_energy

\* forecast_surplus, lines 711-719: the feed-in energy of the periods before
\* the battery reaches its minimum
total_feedin_of(detail, min_battery_energy, full_period_minutes) ==
    LET k == CHOOSE k \in DOMAIN detail :
                /\ detail[k].battery_energy <= min_battery_energy
                /\ \A j \in 1..(k - 1) : detail[j].battery_energy > min_battery_energy
    IN  SumSeq([i \in 1..(k - 1) |->
                  (detail[i].feedin_energy * full_period_minutes)
                      \div detail[i].period_minutes])

\* what a handler body comes to: how it ended, the states it sets when it
\* got that far, whether it simulated, whether it went into the setpoint
\* search, and the result it publishes from
Outcome(status, writes, simulated, searched, result) ==
    [status |-> status, writes |-> writes, simulated |-> simulated,
     searched |-> searched, result |-> result]

Write(id, value) == [id |-> id, value |-> value]

\* forecast_surplus, lines 729-740: the forecast with the planned drives
forecast_with_ev(st, t_now, pv_forecast, ev_schedule, surplus) ==
    forecast_setpoint(
        [forecast_setpoint_defaults EXCEPT
            !.forecast = pv_forecast,
            !.battery_capacity = get(st, "battery_capacity", 0),
            !.battery_energy = get(st, "battery_energy", 0),
            !.setpoint = -20, !.forecast_dampening = 75,
            !.with_ev_charging = TRUE,
            !.ev_schedule = Schedule(ev_schedule),
            !.surplus_energy = surplus,
            !.ev_energy = get(st, "ev_energy", 0),
            !.t_now = t_now], st)

\* forecast_surplus, lines 742-764: the two states it sets
set_energy_surplus(surplus, with_ev) ==
    IF with_ev.status = "raised"
    THEN Outcome("raised", <<>>, TRUE, FALSE, NoResult)
    ELSE Outcome("returned",
            << Write("energy_surplus", Round2(surplus)),
               Write("energy_surplus_after_ev_charging",
                     Round2(Round2(Max(0,
                        min_battery_energy_of(with_ev.value.detail) - 10 * KWh)))) >>,
            TRUE, FALSE, NoResult)

\* forecast_surplus, lines 714-725: the surplus of the forecast without EV
surplus_of(detail, full_period_minutes) ==
    Round2(Max(0, min_battery_energy_of(detail) - 10 * KWh))
    + Max(0, total_feedin_of(detail, min_battery_energy_of(detail),
                             full_period_minutes))

\* forecast_surplus, lines 714-764: from the forecast without EV on
forecast_surplus_of(st, t_now, pv_forecast, no_ev, ev_schedule) ==
    IF no_ev.status = "raised"
    THEN Outcome("raised", <<>>, TRUE, FALSE, NoResult)
    ELSE IF no_ev.value.detail = <<>>                             \* detail[0]
    THEN Outcome("raised", <<>>, TRUE, FALSE, NoResult)
    ELSE IF ev_schedule = <<>>            \* forecast_with_ev is not bound
    THEN Outcome("raised", <<>>, TRUE, FALSE, NoResult)
    ELSE set_energy_surplus(
            surplus_of(no_ev.value.detail,
                       pv_forecast[2].period_start - pv_forecast[1].period_start),
            forecast_with_ev(st, t_now, pv_forecast, ev_schedule,
                surplus_of(no_ev.value.detail,
                    pv_forecast[2].period_start - pv_forecast[1].period_start)))

\* forecast_surplus, lines 698-712: from the forecast with prices on
forecast_no_ev(st, t_now, pv) ==
    IF pv.status = "raised"
    THEN Outcome("raised", <<>>, FALSE, FALSE, NoResult)
    ELSE IF Len(pv.value) < 2
    THEN Outcome("returned", <<>>, FALSE, FALSE, NoResult)       \* line 701
    ELSE forecast_surplus_of(st, t_now, pv.value,
            forecast_setpoint(
                [forecast_setpoint_defaults EXCEPT
                    !.forecast = pv.value,
                    !.battery_capacity = get(st, "battery_capacity", unavailable * KWh),
                    !.battery_energy = get(st, "battery_energy", unavailable * KWh),
                    !.setpoint = -20, !.forecast_dampening = 75,
                    !.with_ev_charging = FALSE, !.t_now = t_now], st),
            get_ev_schedule(st, t_now))

\* forecast_surplus, lines 687-764, after its task.unique
forecast_surplus(st, t_now) ==
    IF \/ get(st, "battery_capacity", unavailable * KWh) = unavailable * KWh
       \/ get(st, "battery_energy", unavailable * KWh) = unavailable * KWh
    THEN Outcome("returned", <<>>, FALSE, FALSE, NoResult)       \* line 696
    ELSE forecast_no_ev(st, t_now,
            get_pv_forecast_with_prices(st, t_now, t_now + 80 * 60, st.epex_prices))

----------------------------------------------------------------------------
(* auto_setpoint_target *)

Last(seq) == seq[Len(seq)]

\* a merge that keeps the whole detail of a whatever the split time
merge_setpoint_results_unsplit(a, b, t_split) ==
    LET AfterSplit(e) == e.period_start > t_split
    IN  [a EXCEPT
            !.min_bat = Min(a.min_bat, b.min_bat),
            !.max_bat = Max(a.max_bat, b.max_bat),
            !.max_feedin = Max(a.max_feedin, b.max_feedin),
            !.detail = a.detail \o SelectSeq(b.detail, AfterSplit)]

\* merge_setpoint_results, lines 1210-1227
merge_setpoint_results(a, b, t_split) ==
    LET BeforeSplit(e) == e.period_start <= t_split
        AfterSplit(e) == e.period_start > t_split
    IN  [a EXCEPT
            !.min_bat = Min(a.min_bat, b.min_bat),
            !.t_min_bat = IF a.t_min_bat < b.t_min_bat THEN a.t_min_bat ELSE b.t_min_bat,
            !.max_bat = Max(a.max_bat, b.max_bat),
            !.t_max_bat = IF a.t_max_bat > b.t_max_bat THEN a.t_max_bat ELSE b.t_max_bat,
            !.max_feedin = Max(a.max_feedin, b.max_feedin),
            !.t_max_feedin = IF a.t_max_feedin > b.t_max_feedin
                             THEN a.t_max_feedin ELSE b.t_max_feedin,
            !.setpoint_spread = a.setpoint_spread,
            !.detail = SelectSeq(a.detail, BeforeSplit) \o SelectSeq(b.detail, AfterSplit)]

\* forecast_setpoint_local, lines 1318-1353. ctx are the locals of
\* auto_setpoint_target that the closure reads; t_start and t_end are None
\* when not given.
forecast_setpoint_local(ctx, st, forecast, setpoint, setpoint_spread, current_battery_energy, t_start, t_end, with_ev_charging, ev_energy, max_battery_power_target) ==
    LET AfterStart(e) == t_start < e.period_start
        BeforeEnd(e) == e.period_start < t_end
        window == IF t_start # None THEN SelectSeq(forecast, AfterStart)
                  ELSE IF t_end # None THEN SelectSeq(forecast, BeforeEnd)
                  ELSE forecast
    IN  forecast_setpoint(
            [forecast_setpoint_defaults EXCEPT
                !.forecast = window,
                !.setpoint = setpoint,
                !.battery_capacity = ctx.battery_capacity,
                !.min_feedin_price = 0,
                !.forecast_dampening = 90,
                !.battery_energy = current_battery_energy,
                !.setpoint_spread = setpoint_spread,
                !.battery_min_energy = ctx.battery_min_energy,
                !.with_ev_charging = with_ev_charging,
                !.ev_energy = ev_energy,
                !.max_battery_power_target = max_battery_power_target,
                !.max_pv_feedin_target = ctx.max_pv_feedin,
                !.max_setpoint = ctx.max_setpoint,
                !.ev_schedule = ctx.ev_schedule,
                !.t_now = ctx.t_now], st)

\* the iterations of a search
max_iters == 10

\* the defaults of setpoint_binary_search's parameters (lines 1397-1413)
setpoint_binary_search_defaults(ctx) ==
    [min_setpoint |-> -ctx.max_feedin_limit, max_setpoint |-> ctx.max_setpoint,
     with_ev_charging |-> TRUE, battery_energy |-> ctx.current_battery_energy,
     ev_energy |-> None, max_battery_power_target |-> 8000,
     current_setpoint |-> None, current_spread |-> None,
     min_spread |-> 1000, max_spread |-> 500000,
     update_setpoint |-> TRUE, update_spread |-> FALSE]

\* setpoint_binary_search, lines 1422-1425: the setpoint and the spread
\* an iteration tries
search_setpoint(p) ==
    IF p.update_setpoint THEN (p.min_setpoint + p.max_setpoint) \div 2
    ELSE p.current_setpoint

search_spread(p) ==
    IF p.update_spread THEN (p.min_spread + p.max_spread) \div 2
    ELSE p.current_spread

\* a loop without the break
search_converged_never(p) ==
    FALSE

\* setpoint_binary_search, lines 1441-1443: the break of the loop
search_converged(p) ==
    \/ (p.update_spread /\ Abs(p.max_spread - p.min_spread) < 100)
    \/ (p.update_setpoint /\ Abs(p.max_setpoint - p.min_setpoint) < 50)

\* setpoint_binary_search, lines 1446-1467: the parameters after an
\* iteration with the result r
search_narrow(ctx, p, r) ==
    LET too_low == r.min_bat < ctx.battery_min_energy + KWh \div 10
        too_much == ~too_low /\ r.max_feedin > ctx.max_pv_feedin
        not_full == ~too_low /\ ~too_much /\ p.update_spread
                    /\ r.max_bat < ctx.battery_capacity
    IN  [p EXCEPT
            !.current_setpoint = search_setpoint(p),
            !.current_spread = search_spread(p),
            !.min_setpoint = IF too_low /\ p.update_setpoint
                             THEN search_setpoint(p) ELSE @,
            !.max_setpoint = IF too_much /\ p.update_setpoint
                             THEN search_setpoint(p) ELSE @,
            !.max_spread = IF (too_low /\ p.update_spread) \/ not_full
                           THEN search_spread(p) ELSE @,
            !.min_spread = IF too_much /\ p.update_spread
                           THEN search_spread(p) ELSE @]

\* setpoint_binary_search, lines 1421-1469: the loop from iteration itr on,
\* p the parameters as the iterations before have left them
RECURSIVE setpoint_binary_search_loop(_, _, _, _, _, _)
RECURSIVE setpoint_binary_search_step(_, _, _, _, _, _, _)
setpoint_binary_search_loop(ctx, st, forecast, p, search_results, itr) ==
    IF itr >= max_iters THEN Returned(search_results)
    ELSE setpoint_binary_search_step(ctx, st, forecast, p, search_results, itr,
            forecast_setpoint_local(ctx, st, forecast, search_setpoint(p),
                search_spread(p), p.battery_energy, None, None,
                p.with_ev_charging, p.ev_energy, p.max_battery_power_target))

\* lines 1439-1467: the iteration after its forecast r
setpoint_binary_search_step(ctx, st, forecast, p, search_results, itr, r) ==
    IF r.status = "raised" THEN Raised
    ELSE IF search_converged(p) THEN Returned(Append(search_results, r.value))
    ELSE setpoint_binary_search_loop(ctx, st, forecast,
            search_narrow(ctx, p, r.value), Append(search_results, r.value),
            itr + 1)

\* setpoint_binary_search, lines 1415-1419: one of the assertions fails
search_assertion_fails(p) ==
    \/ ~(p.update_setpoint \/ p.update_spread)
    \/ (~p.update_spread /\ p.current_spread = None)
    \/ (~p.update_setpoint /\ p.current_setpoint = None)

\* setpoint_binary_search, lines 1397-1469
setpoint_binary_search(ctx, st, forecast, p) ==
    IF search_assertion_fails(p)
    THEN Raised                                       \* lines 1415-1419
    ELSE setpoint_binary_search_loop(ctx, st, forecast, p, <<>>, 0)

\* auto_setpoint_target, lines 1585-1597: the battery power target is cut
\* by 30 % until the feed-in of the window fits
RECURSIVE reduce_battery_power_target(_, _, _, _, _, _)
reduce_battery_power_target(ctx, st, price_forecast, start_detail, t_start, new_result) ==
    IF new_result.max_feedin > ctx.max_pv_feedin
       /\ new_result.max_battery_power_target > 100
    THEN LET r == forecast_setpoint_local(ctx, st, price_forecast,
                      new_result.setpoint, new_result.setpoint_spread,
                      start_detail.battery_energy, t_start, None, TRUE,
                      start_detail.ev_energy,
                      RoundDiv(new_result.max_battery_power_target * 7, 10))
         IN  IF r.status = "raised" THEN Raised
             ELSE reduce_battery_power_target(ctx, st, price_forecast,
                      start_detail, t_start, r.value)
    ELSE Returned(new_result)

\* auto_setpoint_target, line 1532
window_start(t_now) == Max(t_now, Day(t_now) * 1440 + 8 * 60 + Minute(t_now))

\* auto_setpoint_target, lines 1534-1545
window_end(ctx, epex_pv_forecast, t_start) ==
    LET Evening(e) == /\ e.period_start > t_start
                      /\ Hour(e.period_start) > 14
                      /\ 2 * e.pv_estimate < ctx.max_feedin_limit + 2 * ctx.house_avg_power
        first_evening == FirstWhere(epex_pv_forecast, Evening)
    IN  IF first_evening # None
        THEN epex_pv_forecast[first_evening].period_start
        ELSE t_start + 8 * 60

\* auto_setpoint_target, lines 1618-1632: final_result. rest is the search
\* over the rest of the forecast, NoResult when there is no rest.
final_result(ctx, initial_result, t_start, t_end, new_result, rest) ==
    IF rest.status = "raised" THEN Raised
    ELSE IF t_start > ctx.t_now
    THEN Returned([merge_setpoint_results(initial_result, new_result, t_start)
                      EXCEPT !.max_battery_power_target =
                                 new_result.max_battery_power_target])
    ELSE IF rest.status = "returned"
    THEN Returned(merge_setpoint_results(new_result, Last(rest.value), t_end))
    ELSE Raised                                  \* final_result is not bound

\* auto_setpoint_target, lines 1602-1616: the search over the rest of the
\* forecast, from the end of the window result
rest_result(ctx, st, initial_result, new_result, rest_forecast) ==
    IF rest_forecast = <<>> THEN NoResult
    ELSE IF new_result.detail = <<>> THEN Raised            \* detail[-1]
    ELSE setpoint_binary_search(ctx, st, rest_forecast,
            [setpoint_binary_search_defaults(ctx) EXCEPT
                !.with_ev_charging = TRUE,
                !.battery_energy = Last(new_result.detail).battery_energy,
                !.ev_energy = Last(new_result.detail).ev_energy,
                !.current_spread = initial_result.setpoint_spread])

\* auto_setpoint_target, lines 1602-1632, reduced being the window result
\* with its battery power target cut
refine_rest(ctx, st, epex_pv_forecast, initial_result, t_start, t_end, reduced) ==
    LET AfterEnd(e) == e.period_start > t_end
    IN  IF reduced.status = "raised" THEN Raised
        ELSE final_result(ctx, initial_result, t_start, t_end, reduced.value,
                rest_result(ctx, st, initial_result, reduced.value,
                            SelectSeq(epex_pv_forecast, AfterEnd)))

\* auto_setpoint_target, lines 1574-1632, window_search being the search
\* over the spread in the window
refine_reduce(ctx, st, epex_pv_forecast, initial_result, t_start, t_end, start_detail, price_forecast, window_search) ==
    IF window_search.status = "raised" THEN Raised
    ELSE refine_rest(ctx, st, epex_pv_forecast, initial_result, t_start, t_end,
            reduce_battery_power_target(ctx, st, price_forecast, start_detail,
                t_start, Last(window_search.value)))

\* auto_setpoint_target, lines 1560-1632, start_detail being the index of
\* the first period of initial_result from t_start on
refine_search(ctx, st, epex_pv_forecast, initial_result, t_start, t_end, start_detail, price_forecast) ==
    IF start_detail = None THEN Raised               \* start_detail is None
    ELSE refine_reduce(ctx, st, epex_pv_forecast, initial_result, t_start, t_end,
            initial_result.detail[start_detail], price_forecast,
            setpoint_binary_search(ctx, st, price_forecast,
                [setpoint_binary_search_defaults(ctx) EXCEPT
                    !.min_spread = 1, !.max_spread = 1000000,
                    !.with_ev_charging = TRUE,
                    !.battery_energy =
                        initial_result.detail[start_detail].battery_energy,
                    !.ev_energy = initial_result.detail[start_detail].ev_energy,
                    !.current_setpoint = initial_result.setpoint,
                    !.update_spread = TRUE, !.update_setpoint = FALSE]))

\* auto_setpoint_target, lines 1559-1632, the window being known
refine_window(ctx, st, epex_pv_forecast, initial_result, t_start, t_end) ==
    LET FromStart(e) == e.period_start >= t_start
        InWindow(e) == t_start < e.period_start /\ e.period_start <= t_end
    IN  refine_search(ctx, st, epex_pv_forecast, initial_result, t_start, t_end,
            FirstWhere(initial_result.detail, FromStart),
            SelectSeq(epex_pv_forecast, InWindow))

\* auto_setpoint_target, lines 1531-1632: the search over the feed-in window
\* of today, search_results[-1] being initial_result
refine_feedin_window(ctx, st, epex_pv_forecast, initial_result) ==
    refine_window(ctx, st, epex_pv_forecast, initial_result,
        window_start(ctx.t_now),
        window_end(ctx, epex_pv_forecast, window_start(ctx.t_now)))

\* auto_setpoint_target, lines 1634-1668: the setpoint it publishes
publish_setpoint(st, ctx, setpoint_result) ==
    IF setpoint_result.status = "raised"
    THEN Outcome("raised", <<>>, TRUE, TRUE, NoResult)
    ELSE Outcome("returned",
            <<Write("power_setpoint_target",
                map_setpoint(setpoint_result.value.setpoint,
                    Max(0, get(st, "epex_forecast_prices", 0)),
                    setpoint_result.value.prices_mean,
                    setpoint_result.value.prices_std,
                    ctx.current_battery_energy, ctx.battery_min_energy,
                    get(st, "total_power", 0), get(st, "loads", 0),
                    4000, setpoint_result.value.setpoint_spread, -20, -20,
                    setpoint_result.value.max_battery_power_target))>>,
            TRUE, TRUE,
            [status |-> "published", min_bat |-> setpoint_result.value.min_bat,
             max_feedin |-> setpoint_result.value.max_feedin])

\* auto_setpoint_target, lines 1526-1668, initial_result being the last
\* result of the two searches and recheck the forecast of lines 1515-1524
refine_today(st, ctx, epex_pv_forecast, initial_result, recheck) ==
    LET today == {i \in DOMAIN initial_result.detail :
                     Day(initial_result.detail[i].period_start) = Day(ctx.t_now)}
        feedin_today_exceeds ==
            \E i \in today : initial_result.detail[i].feedin_energy
                    > ctx.max_pv_feedin * initial_result.detail[i].period_minutes
    IN  IF recheck.status = "raised"
        THEN Outcome("raised", <<>>, TRUE, TRUE, NoResult)
        ELSE IF today = {}                              \* max([]), line 1526
        THEN Outcome("raised", <<>>, TRUE, TRUE, NoResult)
        ELSE IF feedin_today_exceeds
        THEN publish_setpoint(st, ctx,
                refine_feedin_window(ctx, st, epex_pv_forecast, initial_result))
        ELSE publish_setpoint(st, ctx, Returned(initial_result))

\* auto_setpoint_target, lines 1512-1524
recheck_initial_result(st, ctx, epex_pv_forecast, initial_result) ==
    refine_today(st, ctx, epex_pv_forecast, initial_result,
        forecast_setpoint_local(ctx, st, epex_pv_forecast,
            initial_result.setpoint, initial_result.setpoint_spread,
            ctx.current_battery_energy, None, None, TRUE, ctx.ev_energy, 8000))

\* auto_setpoint_target, lines 1504-1510, search_results being the results
\* of the search over the setpoint
search_spread_results(st, ctx, epex_pv_forecast, search_results, secondary) ==
    IF secondary.status = "raised"
    THEN Outcome("raised", <<>>, TRUE, TRUE, NoResult)
    ELSE recheck_initial_result(st, ctx, epex_pv_forecast,
            Last(search_results \o secondary.value))

\* auto_setpoint_target, lines 1490-1510, primary being the search over the
\* setpoint
search_setpoint_results(st, ctx, epex_pv_forecast, primary) ==
    IF primary.status = "raised"
    THEN Outcome("raised", <<>>, TRUE, TRUE, NoResult)
    ELSE search_spread_results(st, ctx, epex_pv_forecast, primary.value,
            setpoint_binary_search(ctx, st, epex_pv_forecast,
                [setpoint_binary_search_defaults(ctx) EXCEPT
                    !.current_setpoint = Last(primary.value).setpoint,
                    !.update_spread = TRUE, !.update_setpoint = FALSE]))

\* auto_setpoint_target, lines 1383-1497, initial_forecast being the
\* forecast of lines 1373-1381
skip_automation(st, ctx, epex_pv_forecast, automation_disabled, initial_forecast) ==
    IF initial_forecast.status = "raised"
    THEN Outcome("raised", <<>>, FALSE, FALSE, NoResult)
    ELSE IF automation_disabled \/ initial_forecast.value.max_feedin = 0
    THEN Outcome("returned",
            <<Write("power_setpoint_target", initial_forecast.value.setpoint)>>,
            TRUE, FALSE, NoResult)                                 \* line 1395
    ELSE search_setpoint_results(st, ctx, epex_pv_forecast,
            setpoint_binary_search(ctx, st, epex_pv_forecast,
                [setpoint_binary_search_defaults(ctx) EXCEPT
                    !.min_setpoint = -ctx.max_feedin_limit,
                    !.max_setpoint = ctx.max_setpoint,
                    !.current_spread = 10000]))

\* auto_setpoint_target, lines 1365-1381, pv being the forecast with prices
initial_forecast(st, ctx, pv, automation_disabled) ==
    IF pv.status = "raised"
    THEN Outcome("raised", <<>>, FALSE, FALSE, NoResult)
    ELSE skip_automation(st, ctx, pv.value, automation_disabled,
            forecast_setpoint_local(ctx, st, pv.value,
                IF automation_disabled THEN ctx.current_setpoint
                ELSE ctx.max_setpoint,
                5000, ctx.current_battery_energy, None, None, TRUE,
                ctx.ev_energy, 8000))

\* auto_setpoint_target, lines 1283-1316 and 1356: the locals that the rest
\* of the handler and its closures read
auto_setpoint_target_locals(st, t_now) ==
    [battery_capacity |-> get(st, "battery_capacity", unavailable * KWh),
     battery_min_energy |-> get(st, "battery_capacity", unavailable * KWh) \div 10,
     max_pv_feedin |-> get(st, "max_pv_feedin_target", 4000),
     max_setpoint |-> get(st, "max_setpoint", -20),
     max_feedin_limit |-> get(st, "max_feedin_target", 4000),
     house_avg_power |-> get(st, "daily_average_power", 0),
     current_battery_energy |-> get(st, "battery_energy", 0),
     ev_energy |-> get(st, "ev_energy", EvCap),
     current_setpoint |-> get(st, "power_setpoint_target",
                              get(st, "max_setpoint", -20)),
     ev_schedule |-> Schedule(parse_full_schedule(st.planned_drives,
                        get(st, "ev_required_soc", 8000), Day(t_now))),
     t_now |-> t_now]

\* auto_setpoint_target, lines 1283-1668, after its task.unique
auto_setpoint_target(st, t_now) ==
    IF get(st, "battery_capacity", unavailable * KWh) = unavailable * KWh
    THEN Outcome("returned", <<>>, FALSE, FALSE, NoResult)         \* line 1302
    ELSE IF st.epex_prices = <<>>
    THEN Outcome("returned", <<>>, FALSE, FALSE, NoResult)         \* line 1361
    ELSE initial_forecast(st, auto_setpoint_target_locals(st, t_now),
            get_pv_forecast_with_prices(st, t_now, t_now + 24 * 60, st.epex_prices),
            ~get_bool(st, "auto_setpoint", FALSE))

----------------------------------------------------------------------------
(* Bounds of the checked instances *)

\* number of forecast periods of a simulated forecast
MaxPeriods == 3

\* the full forecast period, minutes
PeriodMinutes == 30

----------------------------------------------------------------------------
(* The state store with every entity unknown, and the parts of the state    *)
(* that a specification leaves alone                                        *)

EmptyStore ==
    [battery_capacity |-> None, battery_energy |-> None, battery_soc |-> None,
     ev_required_soc |-> None, ev_soc |-> None, ev_energy |-> None,
     smart_charge_limit |-> None,
     auto_charge_limit |-> Unknown, daily_average_power |-> None,
     nightly_average_power |-> None, charger_ready |-> Unknown,
     control_switch |-> Unknown, force_charge_up_to |-> None,
     max_charge_price |-> None, force_charge_switch |-> Unknown,
     min_discharge_price |-> None, energy_surplus |-> None,
     energy_surplus_after_ev_charging |-> None,
     efficient_discharge |-> Unknown, mode_sensor |-> Unknown,
     \* Grid and Automation
     max_feedin_target |-> None, max_pv_feedin_target |-> None,
     max_setpoint |-> None, power_setpoint_target |-> None,
     auto_setpoint |-> Unknown, auto_ev_charging |-> Unknown,
     \* production, loads and excess, W
     total_power |-> None, loads |-> None, excess_power |-> None,
     excess_target |-> None,
     \* the price sensor: its state, its "data" attribute, the price flags
     epex_forecast_prices |-> None, epex_prices |-> <<>>,
     low_price |-> Unknown, high_price |-> Unknown,
     \* the detailedForecast attributes of the forecast days, in order
     pv_forecast |-> <<>>,
     \* the schedule of planned drives: its weekdays, whether a drive is
     \* ongoing, its next_event attribute
     planned_drives |-> <<>>, drive_ongoing |-> Unknown, next_event |-> None,
     \* the charger: force charge switch, configured phases and current
     force_charge |-> Unknown, phases |-> None, current_setting |-> None]

Idle == [status |-> "idle"]

NoCall == fn_in = Idle /\ fn_out = Idle

NoSim == cfg = Idle /\ sim = Idle

NoTasks == tasks = <<>> /\ outputs = <<>>

NoCharger == clock = 0 /\ last_ev_charging_phase_change = 0

----------------------------------------------------------------------------
(* forecast_setpoint as a function of its arguments and the state store     *)

\* forecasts of n half-hour periods from t0: PV estimate (W) and price
Forecasts(n, t0) ==
    {[i \in 1..n |-> [period_start |-> t0 + (i - 1) * PeriodMinutes,
                     pv_estimate |-> pv[i], price_per_kwh |-> pr[i]]] :
        pv \in [1..n -> {0, 8000}], pr \in [1..n -> {100, 300}]}

\* the EV side of a run: <<with_ev_charging, ev_energy, ev_schedule,
\* charger_ready, EV.soc>>
EvCases(t0) ==
    { <<FALSE, None, NoSchedule, "off", 5000>>,
      \* a drive with a distance during the second period, EV nearly empty
      <<TRUE, 3 * KWh,
        Schedule(<<[start |-> t0 + PeriodMinutes, end |-> t0 + 2 * PeriodMinutes,
                    required_soc |-> None, distance |-> 50]>>), "on", 5000>>,
      \* a drive after the forecast, departure within two hours
      <<TRUE, 30 * KWh,
        Schedule(<<[start |-> t0 + 100, end |-> t0 + 400,
                    required_soc |-> 9000, distance |-> None]>>), "on", 5000>>,
      \* no drive planned, charger not ready
      <<TRUE, 30 * KWh, Schedule(<<>>), "off", 5000>>,
      \* EV energy not given
      <<TRUE, None, Schedule(<<>>), "on", 5000>>,
      \* a drive that asks for a full EV, departure within two hours, the EV
      \* at 92 %
      <<TRUE, 55 * KWh + KWh \div 5,
        Schedule(<<[start |-> t0 + 100, end |-> t0 + 400,
                    required_soc |-> 10000, distance |-> None]>>), "on", 9200>> }

SimInit ==
    /\ NoCall /\ NoTasks /\ NoCharger
    /\ sim = Idle
    /\ \E t0 \in {11 * 60, 23 * 60}, off \in {0, 10, 40},
          n \in 1..MaxPeriods, sp \in {-20, -3000},
          be \in {0, 150000, 360000} :
       \E f \in Forecasts(n, t0), ev \in EvCases(t0) :
          /\ cfg = [status |-> "given", forecast |-> f, setpoint |-> sp,
                    battery_capacity |-> 5 * KWh, min_feedin_price |-> 0,
                    forecast_dampening |-> 80, battery_energy |-> be,
                    setpoint_spread |-> 10000, battery_min_energy |-> 2 * KWh,
                    battery_charge_limit |-> 6600, with_ev_charging |-> ev[1],
                    ev_energy |-> ev[2], max_battery_power_target |-> 4000,
                    max_pv_feedin_target |-> 1000, max_setpoint |-> -20,
                    ev_schedule |-> ev[3], surplus_energy |-> None,
                    t_now |-> t0 + off]
          /\ store = [EmptyStore EXCEPT !.ev_soc = ev[5],
                                        !.daily_average_power = 500,
                                        !.nightly_average_power = 300,
                                        !.charger_ready = ev[4]]

\* forecast_setpoint is entered: lines 916-986
forecast_setpoint_call ==
    /\ cfg.status = "given" /\ sim.status = "idle"
    /\ sim' = forecast_setpoint_begin(cfg, store)
    /\ UNCHANGED <<fn_in, fn_out, cfg, store, tasks, outputs, clock,
                   last_ev_charging_phase_change>>

\* one iteration of the loop, up to its task.sleep
forecast_setpoint_loop ==
    /\ sim.status = "running"
    /\ sim.idx <= Len(cfg.forecast)
    /\ sim' = forecast_setpoint_period(cfg, store, sim)
    /\ UNCHANGED <<fn_in, fn_out, cfg, store, tasks, outputs, clock,
                   last_ev_charging_phase_change>>

\* the loop is over: the SetpointResult is returned
forecast_setpoint_return ==
    /\ sim.status = "running"
    /\ sim.idx > Len(cfg.forecast)
    /\ sim' = [sim EXCEPT !.status = "done"]
    /\ fn_out' = SetpointResult(cfg, sim)
    /\ UNCHANGED <<fn_in, cfg, store, tasks, outputs, clock,
                   last_ev_charging_phase_change>>

SimNext == forecast_setpoint_call \/ forecast_setpoint_loop \/ forecast_setpoint_return

SpecSim == SimInit /\ [][SimNext]_vars

----------------------------------------------------------------------------
(* Properties of forecast_setpoint *)

Details == IF sim.status \in {"running", "done"} THEN sim.detail ELSE <<>>

\* C1: every ForecastEntry appended to the detail list has a battery energy
\* between 0 and the battery capacity
C1_BatteryClamp ==
    \A i \in DOMAIN Details :
        /\ 0 <= Details[i].battery_energy
        /\ Details[i].battery_energy <= cfg.battery_capacity

\* a period fills the battery up to its capacity and feeds the rest in
C1_Witness ==
    /\ cfg.battery_energy < cfg.battery_capacity
    /\ \E i \in DOMAIN Details :
          /\ Details[i].battery_energy = cfg.battery_capacity
          /\ Details[i].feedin_energy > 0

\* C7: the feed-in recorded for every simulated period is not negative
\* (feedin = feedin_energy / period_minutes)
C7_FeedinNonNegative ==
    \A i \in DOMAIN Details :
        Details[i].feedin_energy >= 0 /\ Details[i].period_minutes > 0

\* one period feeds in because the charge-rate cap binds, another draws more
\* than the PV produces and feeds in nothing
C7_Witness ==
    \E i, j \in DOMAIN Details :
        /\ Details[i].feedin_energy > 0
        /\ Details[j].feedin_energy = 0
        /\ Details[j].power_draw > Details[j].pv_estimate

\* C8: with the EV energy tracked, the EV energy recorded in every
\* ForecastEntry is at least 5 kWh
C8_EvEnergyFloor ==
    \A i \in DOMAIN Details :
        Details[i].ev_energy # None => Details[i].ev_energy >= 5 * KWh

\* a run started below 5 kWh in which a period of an ongoing drive with a
\* distance is recorded at the floor
C8_Witness ==
    /\ cfg.status = "given" /\ cfg.ev_energy # None /\ cfg.ev_energy < 5 * KWh
    /\ \E i \in DOMAIN Details, k \in DOMAIN cfg.ev_schedule.entries :
          LET d == cfg.ev_schedule.entries[k]
          IN  /\ d.start <= Details[i].period_start
              /\ Details[i].period_start < d.end
              /\ d.distance > 0
              /\ Details[i].ev_energy = 5 * KWh

----------------------------------------------------------------------------
(* map_setpoint as a function of its arguments *)

MapInit ==
    /\ NoSim /\ NoTasks /\ NoCharger
    /\ store = EmptyStore
    /\ fn_out = Idle
    /\ \E setpoint \in {-4000, -1000, -20, 0}, price \in {50, 250, 400},
          prices_std \in {0, 100}, battery_energy \in {0, 1 * KWh, 3 * KWh, 5 * KWh},
          pv_power \in {0, 3000, 9000}, max_feedin \in {-100, 0, 10, 1000, 4000},
          setpoint_spread \in {0, 1000, 100000},
          max_battery_power_target \in {70, 4000} :
          fn_in = [status |-> "given", setpoint |-> setpoint, price |-> price,
                   prices_mean |-> 250, prices_std |-> prices_std,
                   battery_energy |-> battery_energy,
                   battery_min_limit |-> 1 * KWh, pv_power |-> pv_power,
                   house_power |-> 500, max_feedin |-> max_feedin,
                   setpoint_spread |-> setpoint_spread, min_setpoint |-> -20,
                   max_setpoint |-> -20,
                   max_battery_power_target |-> max_battery_power_target]

\* map_setpoint is applied to the arguments
map_setpoint_call ==
    /\ fn_in.status = "given" /\ fn_out.status = "idle"
    /\ fn_out' = [status |-> "returned",
                  value |-> map_setpoint(fn_in.setpoint, fn_in.price,
                      fn_in.prices_mean, fn_in.prices_std, fn_in.battery_energy,
                      fn_in.battery_min_limit, fn_in.pv_power, fn_in.house_power,
                      fn_in.max_feedin, fn_in.setpoint_spread, fn_in.min_setpoint,
                      fn_in.max_setpoint, fn_in.max_battery_power_target)]
    /\ UNCHANGED <<fn_in, cfg, sim, store, tasks, outputs, clock,
                   last_ev_charging_phase_change>>

MapNext == map_setpoint_call

SpecMap == MapInit /\ [][MapNext]_vars

MapSurplusPv == Max(0, fn_in.pv_power - fn_in.house_power - fn_in.max_battery_power_target)

\* C6 as claimed: for all inputs map_setpoint returns r with
\* -(max_feedin + surplus_pv) <= r <= min_setpoint
C6_SetpointBounds_AllInputs ==
    fn_out.status = "returned" =>
        /\ -(fn_in.max_feedin + MapSurplusPv) <= fn_out.value
        /\ fn_out.value <= fn_in.min_setpoint

\* C6 amended: r >= -(max_feedin + surplus_pv) for all inputs, and
\* r <= min_setpoint whenever max_feedin + surplus_pv >= -min_setpoint
C6_SetpointBounds ==
    fn_out.status = "returned" =>
        /\ -(fn_in.max_feedin + MapSurplusPv) <= fn_out.value
        /\ (fn_in.max_feedin + MapSurplusPv >= -fn_in.min_setpoint
                => fn_out.value <= fn_in.min_setpoint)

\* a call with a PV surplus beyond the battery power target whose result is
\* strictly inside the bounds
C6_Witness ==
    /\ fn_out.status = "returned"
    /\ MapSurplusPv > 0
    /\ -(fn_in.max_feedin + MapSurplusPv) < fn_out.value
    /\ fn_out.value < fn_in.min_setpoint

----------------------------------------------------------------------------
(* Triggered functions as tasks *)

\* number of function instances triggered in one behaviour
MaxTasks == 2

NoOutcome == Outcome("none", <<>>, FALSE, FALSE, NoResult)

\* the locals of set_phases_and_current and of its caller
NoLocals == [phases |-> 0, current |-> 0, charger_enabled |-> FALSE, then_on |-> FALSE]

\* a function instance: pc is where it stands, found the holder of its name
\* that its task.unique met, wake the tick its task.sleep ends
Task(fn, pc) ==
    [fn |-> fn, pc |-> pc, found |-> None, outcome |-> NoOutcome, wake |-> 0,
     loc |-> NoLocals]

\* the name each function passes to task.unique ("" for none)
unique_name(fn) ==
    CASE fn = "forecast_surplus" -> "forecast_surplus"          \* energy.py:686
      [] fn = "auto_setpoint_target" -> "auto setpoint target"  \* energy.py:1282
      [] fn = "auto_ev_charging" -> "control_ev_charging"       \* ev_charging.py:221
      [] OTHER -> ""

Ended(t) == t.pc \in {"killed", "done", "raised"}

\* the task has called task.unique with the name and still runs
Holds(t, task_name) ==
    unique_name(t.fn) = task_name /\ t.pc # "unique" /\ ~Ended(t)

\* a task.unique after which the caller and the holders all run on
task_unique_kills_nobody(ts, i, task_name, kill_me) ==
    [ts EXCEPT ![i].pc = "body"]

\* a task.unique that kills the holders whatever kill_me says
task_unique_kills_holders(ts, i, task_name, kill_me) ==
    LET holders == {j \in DOMAIN ts : j # i /\ Holds(ts[j], task_name)}
    IN  [j \in DOMAIN ts |->
            IF j = i
            THEN [ts[j] EXCEPT !.pc = "body",
                               !.found = IF holders = {} THEN None
                                         ELSE CHOOSE h \in holders : TRUE]
            ELSE IF j \in holders THEN [ts[j] EXCEPT !.pc = "killed"]
            ELSE ts[j]]

\* pyscript's task.unique(task_name, kill_me), called by task i: with
\* kill_me the caller is killed when another running task holds the name,
\* without it the holders are killed; the caller that lives holds the name
task_unique(ts, i, task_name, kill_me) ==
    LET holders == {j \in DOMAIN ts : j # i /\ Holds(ts[j], task_name)}
        found == IF holders = {} THEN None ELSE CHOOSE h \in holders : TRUE
    IN  IF kill_me /\ holders # {}
        THEN [ts EXCEPT ![i].pc = "killed", ![i].found = found]
        ELSE [j \in DOMAIN ts |->
                IF j = i THEN [ts[j] EXCEPT !.pc = "body", !.found = found]
                ELSE IF j \in holders THEN [ts[j] EXCEPT !.pc = "killed"]
                ELSE ts[j]]

\* the states a handler sets, as entries of outputs and in the store
RECURSIVE set_states(_, _)
set_states(st, writes) ==
    IF writes = <<>> THEN st
    ELSE set_states([st EXCEPT ![Head(writes).id] = Head(writes).value],
                    Tail(writes))

Output(id, value, t, i) == [id |-> id, value |-> value, t |-> t, task |-> i]

\* how a handler body that has run leaves its task
after_body(t, o) ==
    [t EXCEPT !.outcome = o,
              !.pc = IF o.status = "raised" THEN "raised"
                     ELSE IF o.writes = <<>> THEN "done" ELSE "publish"]

\* the time trigger of forecast_surplus: cron(*/2 * * * *) and startup
trigger_forecast_surplus ==
    /\ Len(tasks) < MaxTasks
    /\ tasks' = Append(tasks, Task("forecast_surplus", "unique"))
    /\ UNCHANGED <<fn_in, fn_out, cfg, sim, store, outputs, clock,
                   last_ev_charging_phase_change>>

\* the triggers of auto_setpoint_target: period(now, 120sec) and the state
\* trigger on the feed-in targets and the automation switch
trigger_auto_setpoint_target ==
    /\ Len(tasks) < MaxTasks
    /\ tasks' = Append(tasks, Task("auto_setpoint_target", "unique"))
    /\ UNCHANGED <<fn_in, fn_out, cfg, sim, store, outputs, clock,
                   last_ev_charging_phase_change>>

\* the first statement of a handler: task.unique(name, kill_me=True)
task_unique_call ==
    \E i \in DOMAIN tasks :
        /\ tasks[i].pc = "unique"
        /\ tasks' = task_unique(tasks, i, unique_name(tasks[i].fn), TRUE)
        /\ UNCHANGED <<fn_in, fn_out, cfg, sim, store, outputs, clock,
                       last_ev_charging_phase_change>>

\* forecast_surplus from its task.unique to its set_state calls
forecast_surplus_run ==
    \E i \in DOMAIN tasks :
        /\ tasks[i].fn = "forecast_surplus" /\ tasks[i].pc = "body"
        /\ tasks' = [tasks EXCEPT
                        ![i] = after_body(@, forecast_surplus(store, now(clock)))]
        /\ UNCHANGED <<fn_in, fn_out, cfg, sim, store, outputs, clock,
                       last_ev_charging_phase_change>>

\* auto_setpoint_target from its task.unique to its set_state call
auto_setpoint_target_run ==
    \E i \in DOMAIN tasks :
        /\ tasks[i].fn = "auto_setpoint_target" /\ tasks[i].pc = "body"
        /\ tasks' = [tasks EXCEPT
                        ![i] = after_body(@, auto_setpoint_target(store, now(clock)))]
        /\ UNCHANGED <<fn_in, fn_out, cfg, sim, store, outputs, clock,
                       last_ev_charging_phase_change>>

\* the set_state calls that end a handler
set_state_calls ==
    \E i \in DOMAIN tasks :
        /\ tasks[i].pc = "publish"
        /\ LET writes == tasks[i].outcome.writes
           IN  /\ outputs' = outputs \o
                      [k \in DOMAIN writes |->
                          Output(writes[k].id, writes[k].value, clock, i)]
               /\ store' = set_states(store, writes)
        /\ tasks' = [tasks EXCEPT ![i].pc = "done"]
        /\ UNCHANGED <<fn_in, fn_out, cfg, sim, clock,
                       last_ev_charging_phase_change>>

----------------------------------------------------------------------------
(* The forecast handlers over the readings they find *)

\* the time the handlers run at: 11:00 of day 0
StartMinute == 11 * 60

StartTick == (StartMinute * 60) \div TickSeconds

\* the detailedForecast of n periods from the start, PV estimate in W: a
\* sunny day, and a dull one
PvForecasts(n) ==
    {[i \in 1..n |-> [period_start |-> StartMinute + (i - 1) * PeriodMinutes,
                     pv_estimate |-> pv]] : pv \in {400, 8000}}

\* the price forecast: a price for every two periods
EpexPrices ==
    [k \in 1..MaxPeriods |->
        [start_time |-> StartMinute + 2 * (k - 1) * PeriodMinutes,
         price_per_kwh |-> IF k % 2 = 1 THEN 100 ELSE 300]]

\* one drive planned for the next morning, 50 km
OneDrive ==
    << <<"tuesday", <<[from |-> 7 * 60, to |-> 17 * 60, required |-> None,
                       distance |-> 50]>> >> >>

\* the readings that are there in every scenario
BaseStore ==
    [EmptyStore EXCEPT !.ev_soc = 5000, !.ev_energy = 30 * KWh,
                       !.daily_average_power = 500,
                       !.nightly_average_power = 300,
                       !.charger_ready = "on", !.total_power = 3000,
                       !.loads = 500, !.epex_forecast_prices = 250,
                       \* the values the handlers published before
                       !.power_setpoint_target = -500,
                       !.energy_surplus = 2 * KWh,
                       !.energy_surplus_after_ev_charging = 1 * KWh]

HandlersInit ==
    /\ NoCall /\ NoSim /\ NoTasks
    /\ clock = StartTick /\ last_ev_charging_phase_change = 0
    /\ \E n \in 0..MaxPeriods, capacity \in {None, 15 * KWh},
          energy \in {None, 12 * KWh}, prices \in {<<>>, EpexPrices},
          automation \in {"on", "off"}, drives \in {<<>>, OneDrive},
          pv_feedin \in {None, 1000} :
       \E pv \in PvForecasts(n) :
          store = [BaseStore EXCEPT !.battery_capacity = capacity,
                                    !.battery_energy = energy,
                                    !.epex_prices = prices,
                                    !.pv_forecast = pv,
                                    !.auto_setpoint = automation,
                                    !.planned_drives = drives,
                                    !.max_pv_feedin_target = pv_feedin]

HandlersNext ==
    \/ trigger_forecast_surplus
    \/ trigger_auto_setpoint_target
    \/ task_unique_call
    \/ forecast_surplus_run
    \/ auto_setpoint_target_run
    \/ set_state_calls

SpecHandlers == HandlersInit /\ [][HandlersNext]_vars

----------------------------------------------------------------------------
(* Properties of forecast_surplus and auto_setpoint_target *)

\* the handler instances that have run their body to its end
Ran(fn) ==
    {i \in DOMAIN tasks : tasks[i].fn = fn /\ tasks[i].outcome.status # "none"}

BatteryUnavailable == store.battery_capacity = None \/ store.battery_energy = None

NoForecastAvailable == store.epex_prices = <<>> \/ Len(store.pv_forecast) < 2

\* the states the handlers publish are as they were before
Retained ==
    /\ store.power_setpoint_target = BaseStore.power_setpoint_target
    /\ store.energy_surplus = BaseStore.energy_surplus
    /\ store.energy_surplus_after_ev_charging
           = BaseStore.energy_surplus_after_ev_charging

\* setpoints and spreads of the ranges that the searches go through
SearchedSetpoints(ctx) ==
    {-ctx.max_feedin_limit, (ctx.max_setpoint - ctx.max_feedin_limit) \div 2,
     ctx.max_setpoint}

SearchedSpreads == {1000, 10000, 500000}

\* the simulation from the readings of st meets both constraints of the
\* search with the pair
Feasible(st, ctx, pv, setpoint, spread) ==
    LET r == forecast_setpoint_local(ctx, st, pv.value, setpoint, spread,
                 ctx.current_battery_energy, None, None, TRUE, ctx.ev_energy, 8000)
    IN  /\ pv.status = "returned"
        /\ r.status = "returned"
        /\ r.value.min_bat >= ctx.battery_min_energy
        /\ r.value.max_feedin <= ctx.max_pv_feedin

FeasiblePair(st, t_now) ==
    \E spread \in SearchedSpreads :
        \E setpoint \in SearchedSetpoints(auto_setpoint_target_locals(st, t_now)) :
            Feasible(st, auto_setpoint_target_locals(st, t_now),
                     get_pv_forecast_with_prices(st, t_now, t_now + 24 * 60,
                                                 st.epex_prices),
                     setpoint, spread)

C9_NoOutputWithoutForecast ==
    NoForecastAvailable => outputs = <<>> /\ Retained

\* both handlers have run to their end with the battery readings there and
\* a forecast missing
C9_Witness ==
    /\ NoForecastAvailable /\ ~BatteryUnavailable
    /\ Ran("forecast_surplus") # {} /\ Ran("auto_setpoint_target") # {}
    /\ \A i \in DOMAIN tasks : tasks[i].pc \in {"done", "raised"}

\* C10: with the battery capacity or the battery energy reading unavailable,
\* forecast_surplus and auto_setpoint_target end without simulating and
\* without writing an output state
C10_NoSimulationWithoutBattery ==
    BatteryUnavailable =>
        /\ outputs = <<>>
        /\ \A i \in DOMAIN tasks : ~tasks[i].outcome.simulated


----------------------------------------------------------------------------
(* The EV charger: ev_charging.py *)

\* ticks of the cooldown between phase changes: timedelta(minutes=15)
CooldownTicks == Ticks(15 * 60)

\* what a task carries through a step: itself, the state store, the service
\* calls made so far and last_ev_charging_phase_change
Bundle(t, st, out, last) == [t |-> t, st |-> st, out |-> out, last |-> last]

\* service.call at tick clk by task i
Call(b, id, value, clk, i) ==
    [b EXCEPT !.out = Append(@, Output(id, value, clk, i))]

\* task.sleep(seconds): the task stands at pc until the sleep is over
Sleep(b, pc, seconds, clk) ==
    [b EXCEPT !.t.pc = pc, !.t.wake = clk + Ticks(seconds)]

Finish(b) == [b EXCEPT !.t.pc = "done"]

\* turn_on_charger, lines 126-133, up to its task.sleep
turn_on_charger(b, clk, i, pc) ==
    IF get_bool(b.st, "control_switch", FALSE) THEN [b EXCEPT !.t.pc = pc, !.t.wake = clk]
    ELSE Sleep([Call(b, "turn_on", 1, clk, i) EXCEPT !.st.control_switch = "on"],
               pc, 5, clk)

\* turn_off_charger, lines 136-148, up to its task.sleep
turn_off_charger(b, clk, i, pc) ==
    IF get_bool(b.st, "force_charge", FALSE) THEN [b EXCEPT !.t.pc = pc, !.t.wake = clk]
    ELSE IF get_bool(b.st, "control_switch", FALSE)
    THEN Sleep([Call(b, "turn_off", 0, clk, i) EXCEPT !.st.control_switch = "off"],
               pc, 5, clk)
    ELSE [b EXCEPT !.t.pc = pc, !.t.wake = clk]

\* set_current, lines 151-164
set_current(b, current, clk, i) ==
    IF get(b.st, "current_setting", -1) # current
       /\ min_current <= current /\ current <= max_current
    THEN [Call(b, "set_value", current, clk, i) EXCEPT !.st.current_setting = current]
    ELSE b

\* the statements of the caller after set_phases_and_current: the
\* turn_on_charger of auto_ev_charging (lines 309, 324, 349), nothing for
\* enable_force_charge
after_set_phases_and_current(b, clk, i) ==
    IF b.t.loc.then_on THEN turn_on_charger(b, clk, i, "final") ELSE Finish(b)

\* set_phases_and_current, lines 186-189: the phase-switch command, the
\* update of last_ev_charging_phase_change and the sleep of the switch delay
phase_switch(b, clk, i) ==
    Sleep([Call(b, "set_phases_and_current", b.t.loc.phases, clk, i)
              EXCEPT !.st.phases = b.t.loc.phases, !.last = clk],
          "switched", ev_phase_switch_delay, clk)

\* set_phases_and_current, lines 192-193
phase_switched(b, clk, i) ==
    IF b.t.loc.charger_enabled THEN turn_on_charger(b, clk, i, "turned_on")
    ELSE after_set_phases_and_current(b, clk, i)

\* a phase change that does not look at the time of the last one
check_cooldown_unchecked(b, clk, i) ==
    IF get(b.st, "phases", 3) = b.t.loc.phases
    THEN after_set_phases_and_current(b, clk, i)
    ELSE IF b.t.loc.charger_enabled
    THEN turn_off_charger(b, clk, i, "turned_off")
    ELSE phase_switch(b, clk, i)

\* set_phases_and_current, lines 174-184, the current being set: the
\* cooldown check and the turn-off before the switch
check_cooldown(b, clk, i) ==
    IF get(b.st, "phases", 3) = b.t.loc.phases
    THEN after_set_phases_and_current(b, clk, i)                   \* line 195
    ELSE IF b.last > clk - CooldownTicks
    THEN after_set_phases_and_current(b, clk, i)                   \* line 179
    ELSE IF b.t.loc.charger_enabled
    THEN turn_off_charger(b, clk, i, "turned_off")
    ELSE phase_switch(b, clk, i)

\* set_phases_and_current, lines 167-195, up to its first task.sleep
set_phases_and_current(b, phases, current, then_on, clk, i) ==
    check_cooldown(
        set_current([b EXCEPT !.t.loc =
                        [phases |-> phases, current |-> current,
                         charger_enabled |-> get_bool(b.st, "control_switch", FALSE),
                         then_on |-> then_on]],
                    current, clk, i),
        clk, i)

\* a task whose step ended without a sleep goes on at once
RECURSIVE resume(_, _, _)
resume(b, clk, i) ==
    IF b.t.wake > clk THEN b
    ELSE CASE b.t.pc = "turned_off" -> resume(phase_switch(b, clk, i), clk, i)
           [] b.t.pc = "switched" -> resume(phase_switched(b, clk, i), clk, i)
           [] b.t.pc = "turned_on" ->
                resume(after_set_phases_and_current(b, clk, i), clk, i)
           [] b.t.pc = "final" -> Finish(b)
           [] OTHER -> b

\* auto_ev_charging, lines 233 and 253-256: the required soc, limited by
\* the smart charge limit when the limiter is active
limited_required_soc(st) ==
    IF get_bool(st, "auto_charge_limit", FALSE)
    THEN Min(get(st, "smart_charge_limit", get(st, "ev_required_soc", 8000)),
             get(st, "ev_required_soc", 8000))
    ELSE get(st, "ev_required_soc", 8000)

\* auto_ev_charging, lines 264-274, in minutes; None when the name is not
\* bound (a drive is ongoing)
hours_available_to_charge(st, t_now) ==
    IF get_bool(st, "drive_ongoing", FALSE) THEN None
    ELSE IF st.next_event \notin {None, 0} THEN st.next_event - t_now
    ELSE 999 * 60

\* auto_ev_charging, lines 231-289: the locals the strategy decides on. The
\* excess entities hold kW, here W in whole kW.
auto_ev_charging_locals(st, t_now) ==
    [current_soc |-> get(st, "ev_soc", 0),
     required_soc |-> limited_required_soc(st),
     excess_power |-> get(st, "excess_power", 0),
     battery_soc |-> get(st, "battery_soc", 0),
     pv_total_power |-> get(st, "total_power", 0),
     target_excess |-> get(st, "excess_target", 0),
     surplus_energy |-> get(st, "energy_surplus", 0),
     configured_current |-> get(st, "current_setting", 6),
     configured_phases |-> get(st, "phases", 3),
     smart_charge_limit |-> get(st, "smart_charge_limit",
                                get(st, "ev_required_soc", 8000)),
     smart_limiter_active |-> get_bool(st, "auto_charge_limit", FALSE),
     energy_needed |-> Max(0, (limited_required_soc(st) - get(st, "ev_soc", 0))
                                  * (EvCap \div 10000)),
     hours_available_to_charge |-> hours_available_to_charge(st, t_now),
     low_price |-> get_bool(st, "low_price", FALSE),
     high_price |-> get_bool(st, "high_price", FALSE),
     is_charging |-> get_bool(st, "control_switch", FALSE),
     battery_discharging |-> st.mode_sensor = "on"
                             /\ ~get_bool(st, "force_charge_switch", FALSE)]

\* auto_ev_charging, lines 305-307
emergency_charge(r) ==
    /\ \/ r.hours_available_to_charge < 2 * 60
       \/ r.hours_available_to_charge * 3 * 230 * (16 - 1) < r.energy_needed
    /\ r.current_soc < r.required_soc - 100

\* auto_ev_charging, lines 326-332
excess_charge(r) ==
    /\ r.excess_power > r.target_excess
    /\ \/ r.surplus_energy > 5 * KWh
       \/ (r.excess_power > 2000 /\ r.battery_soc > 9000)
    /\ \/ r.pv_total_power > 1000
       \/ (r.hours_available_to_charge < 24 * 60 /\ r.current_soc <= r.required_soc)

\* auto_ev_charging, lines 333-342: the phases for the excess
excess_phases(r) ==
    IF r.configured_phases * r.configured_current * 230
           + (r.excess_power - r.target_excess)
       >= 3 * 230 * 6 + (IF r.configured_phases = 3 THEN -HYSTERESIS_BUFFER
                         ELSE HYSTERESIS_BUFFER)
    THEN 3 ELSE 1

\* the adjustment of the current for the excess over the target
adjustment(r, configured_phases, configured_current) ==
    calculate_charger_current_adjustment(r.excess_power \div 1000,
        r.target_excess \div 1000, configured_phases, configured_current)

\* auto_ev_charging, lines 352-379: the charger is on and the excess is
\* below its target
meet_deficit(b, r, clk, i) ==
    IF r.configured_current = 6
    THEN IF r.configured_phases = 3
         THEN set_phases_and_current(b, 1,
                  r.configured_current + adjustment(r, 1, 16), FALSE, clk, i)
         ELSE turn_off_charger(b, clk, i, "final")
    ELSE Finish(set_current(b,
            Max(6, r.configured_current
                   + adjustment(r, r.configured_phases, r.configured_current)),
            clk, i))

\* auto_ev_charging, lines 300-389: the charging strategy
charging_strategy(b, r, clk, i) ==
    IF r.current_soc > r.required_soc /\ r.surplus_energy <= 1 * KWh
    THEN turn_off_charger(b, clk, i, "final")
    ELSE IF r.smart_limiter_active /\ r.current_soc >= r.smart_charge_limit
    THEN turn_off_charger(b, clk, i, "final")
    ELSE IF emergency_charge(r)
    THEN set_phases_and_current(b, 3, 16, TRUE, clk, i)
    ELSE IF r.low_price /\ r.hours_available_to_charge < 24 * 60
    THEN set_phases_and_current(b, 3,
            IF r.battery_discharging
            THEN r.configured_current + adjustment(r, 3, r.configured_current)
            ELSE 16,
            TRUE, clk, i)
    ELSE IF excess_charge(r)
    THEN set_phases_and_current(b, excess_phases(r),
            r.configured_current
                + adjustment(r, r.configured_phases, r.configured_current),
            TRUE, clk, i)
    ELSE IF r.is_charging /\ r.excess_power < r.target_excess
    THEN meet_deficit(b, r, clk, i)
    ELSE IF r.high_price /\ r.surplus_energy <= 0
            /\ r.excess_power < r.target_excess - 1000
    THEN IF (r.hours_available_to_charge + 30) * 3 * 230 * 16 >= r.energy_needed
         THEN turn_off_charger(b, clk, i, "final")
         ELSE Finish(b)
    ELSE turn_off_charger(b, clk, i, "final")

\* auto_ev_charging, lines 231-391, after its task.unique and up to its
\* first task.sleep
auto_ev_charging(b, r, clk, i) ==
    IF r.energy_needed <= 0 /\ r.surplus_energy < 1 * KWh
    THEN turn_off_charger(b, clk, i, "final")                  \* lines 259-261
    ELSE IF r.hours_available_to_charge = None
    THEN [b EXCEPT !.t.pc = "raised"]      \* line 285: the name is not bound
    ELSE charging_strategy(b, r, clk, i)

\* enable_force_charge, lines 120-123, up to its first task.sleep
enable_force_charge(b, clk, i) ==
    set_phases_and_current([b EXCEPT !.st.control_switch = "True"],
                           3, 16, FALSE, clk, i)

----------------------------------------------------------------------------
(* The charger handlers as tasks over the wall clock *)

\* ticks of the wall clock in one behaviour
MaxTicks == 6

Sleeping(t) == t.pc \in {"turned_off", "switched", "turned_on", "final"}

\* the task has a step to take now
Runnable(t, clk) ==
    \/ t.pc \in {"unique", "body", "publish"}
    \/ (Sleeping(t) /\ t.wake <= clk)

\* the state after task i has taken a step that left the bundle b
Step(i, b) ==
    /\ tasks' = [tasks EXCEPT ![i] = b.t]
    /\ store' = b.st
    /\ outputs' = b.out
    /\ last_ev_charging_phase_change' = b.last
    /\ UNCHANGED <<fn_in, fn_out, cfg, sim, clock>>

\* the time trigger of auto_ev_charging, period(now, 15sec), under its
\* state_active condition (lines 212-215)
trigger_auto_ev_charging ==
    /\ Len(tasks) < MaxTasks
    /\ store.force_charge = "off" /\ store.auto_ev_charging = "on"
    /\ (store.charger_ready = "on" \/ store.control_switch = "on")
    /\ tasks' = Append(tasks, Task("auto_ev_charging", "unique"))
    /\ UNCHANGED <<fn_in, fn_out, cfg, sim, store, outputs, clock,
                   last_ev_charging_phase_change>>

\* the force charge switch is turned on while the handlers are at rest or
\* asleep: the state trigger of enable_force_charge (line 120) starts an
\* instance
force_charge_on ==
    /\ Len(tasks) < MaxTasks
    /\ store.force_charge = "off"
    /\ \A i \in DOMAIN tasks : ~Runnable(tasks[i], clock)
    /\ store' = [store EXCEPT !.force_charge = "on"]
    /\ tasks' = Append(tasks, Task("enable_force_charge", "body"))
    /\ UNCHANGED <<fn_in, fn_out, cfg, sim, outputs, clock,
                   last_ev_charging_phase_change>>

\* the force charge switch is turned off while the handlers are at rest or
\* asleep
force_charge_off ==
    /\ store.force_charge = "on"
    /\ \A i \in DOMAIN tasks : ~Runnable(tasks[i], clock)
    /\ store' = [store EXCEPT !.force_charge = "off"]
    /\ UNCHANGED <<fn_in, fn_out, cfg, sim, tasks, outputs, clock,
                   last_ev_charging_phase_change>>

\* auto_ev_charging from its task.unique to its first task.sleep
auto_ev_charging_run ==
    \E i \in DOMAIN tasks :
        /\ tasks[i].fn = "auto_ev_charging" /\ tasks[i].pc = "body"
        /\ Step(i, resume(
                auto_ev_charging(
                    Bundle(tasks[i], store, outputs, last_ev_charging_phase_change),
                    auto_ev_charging_locals(store, now(clock)), clock, i),
                clock, i))

\* enable_force_charge up to its first task.sleep
enable_force_charge_run ==
    \E i \in DOMAIN tasks :
        /\ tasks[i].fn = "enable_force_charge" /\ tasks[i].pc = "body"
        /\ Step(i, resume(
                enable_force_charge(
                    Bundle(tasks[i], store, outputs, last_ev_charging_phase_change),
                    clock, i),
                clock, i))

\* a task.sleep is over: the task runs on to its next task.sleep or its end
task_sleep_return ==
    \E i \in DOMAIN tasks :
        /\ Sleeping(tasks[i]) /\ tasks[i].wake <= clock
        /\ Step(i, resume(
                Bundle(tasks[i], store, outputs, last_ev_charging_phase_change),
                clock, i))

\* the wall clock advances when no task has a step to take
tick ==
    /\ clock < StartTick + MaxTicks
    /\ \A i \in DOMAIN tasks : ~Runnable(tasks[i], clock)
    /\ clock' = clock + 1
    /\ UNCHANGED <<fn_in, fn_out, cfg, sim, store, tasks, outputs,
                   last_ev_charging_phase_change>>

\* the charger as the handlers find it: configured phases and current,
\* whether it charges, the next drive, the excess over its target
ChargerStores ==
    {[BaseStore EXCEPT !.force_charge = "off", !.auto_ev_charging = "on",
                       !.ev_required_soc = 8000,
                       !.phases = phases, !.current_setting = current,
                       !.control_switch = switch,
                       !.next_event = next_event,
                       !.drive_ongoing = ongoing,
                       !.excess_power = excess, !.excess_target = 1000,
                       !.energy_surplus = surplus] :
        phases \in {1, 3}, current \in {6, 16}, switch \in {"on", "off"},
        next_event \in {None, StartMinute + 60}, ongoing \in {"on", "off"},
        excess \in {0, 5000}, surplus \in {0, 6 * KWh}}

ChargerInit ==
    /\ NoCall /\ NoSim /\ NoTasks
    /\ clock = StartTick
    /\ last_ev_charging_phase_change = StartTick - CooldownTicks   \* line 107
    /\ store \in ChargerStores

ChargerNext ==
    \/ trigger_auto_ev_charging
    \/ task_unique_call
    \/ auto_ev_charging_run
    \/ force_charge_on
    \/ force_charge_off
    \/ enable_force_charge_run
    \/ task_sleep_return
    \/ tick

SpecCharger == ChargerInit /\ [][ChargerNext]_vars

PhaseSwitches == {k \in DOMAIN outputs : outputs[k].id = "set_phases_and_current"}

\* C2: two phase-switch commands are never issued less than 15 minutes
\* apart, across any interleaving of auto_ev_charging and enable_force_charge
C2_PhaseSwitchCooldown ==
    \A m, n \in PhaseSwitches :
        m < n => outputs[n].t - outputs[m].t >= CooldownTicks

----------------------------------------------------------------------------
(* All triggered functions that call task.unique, side by side *)

\* a sunny day with prices and a drive ahead, the charger on one phase
TasksStores ==
    {[BaseStore EXCEPT !.battery_capacity = 15 * KWh,
                       !.battery_energy = 12 * KWh,
                       !.epex_prices = EpexPrices,
                       !.pv_forecast = pv,
                       !.planned_drives = OneDrive,
                       !.auto_setpoint = automation,
                       !.force_charge = "off", !.auto_ev_charging = "on",
                       !.ev_required_soc = 8000,
                       !.phases = 1, !.current_setting = 6,
                       !.control_switch = switch,
                       !.next_event = StartMinute + 60,
                       !.excess_power = 0, !.excess_target = 1000] :
        pv \in PvForecasts(2), automation \in {"on"},
        switch \in {"on", "off"}}

TasksInit ==
    /\ NoCall /\ NoSim /\ NoTasks
    /\ clock = StartTick
    /\ last_ev_charging_phase_change = StartTick - CooldownTicks
    /\ store \in TasksStores

TasksNext ==
    \/ trigger_forecast_surplus
    \/ trigger_auto_setpoint_target
    \/ trigger_auto_ev_charging
    \/ task_unique_call
    \/ forecast_surplus_run
    \/ auto_setpoint_target_run
    \/ set_state_calls
    \/ auto_ev_charging_run
    \/ force_charge_on
    \/ force_charge_off
    \/ enable_force_charge_run
    \/ task_sleep_return
    \/ tick

SpecTasks == TasksInit /\ [][TasksNext]_vars

\* C3: for each name passed to task.unique, at most one instance is past
\* its task.unique call and not yet at its end
C3_OneInstancePerName ==
    \A i, j \in DOMAIN tasks :
        (i # j /\ unique_name(tasks[i].fn) # ""
               /\ Holds(tasks[i], unique_name(tasks[i].fn)))
        => ~Holds(tasks[j], unique_name(tasks[i].fn))

\* an instance is past its task.unique, asleep or about to publish, and a
\* second instance of the name has been through its task.unique
C3_Witness ==
    \E i, j \in DOMAIN tasks :
        /\ i # j /\ tasks[i].fn = tasks[j].fn
        /\ Holds(tasks[i], unique_name(tasks[i].fn))
        /\ tasks[i].pc # "body"
        /\ tasks[j].found = i

----------------------------------------------------------------------------
(* The functions of energy_core.py, victron.py and energy.py as functions *)
(* of their arguments *)

\* the time the functions are called at: 11:00 of day 0
CoreNow == StartMinute

\* arguments of _get_charge_action: a drive in one hour, in ten hours or
\* none, the EV below, near and above its required soc
ChargeActionCalls ==
    [fn : {"_get_charge_action"},
     next_drive : {None, CoreNow + 60, CoreNow + 10 * 60},
     current_soc : {5000, 7000, 7950, 9000},
     required_soc : {8000, 9500},
     energy_needed : {0, 6 * KWh, 30 * KWh},
     excess_power : {-1000, 500, 3000},
     excess_target : {0},
     surplus_energy : {0, 1 * KWh, 8 * KWh},
     smart_charge_limit : {85, 100},
     smart_limiter_active : BOOLEAN,
     configured_phases : {1, 3},
     configured_current : {6, 16},
     is_low_price : BOOLEAN,
     pv_total_power : {0, 2000},
     battery_soc : {5000},
     is_charging : BOOLEAN,
     battery_discharging : BOOLEAN]

\* ev_charging.py smart_charge_limit, lines 27-61: the limit the handler sets
\* from the next_event attribute and the state of the planned drives
smart_charge_limit(st, t_now) ==
    LET schedule == st.next_event
        is_on    == get_bool(st, "drive_ongoing", FALSE)
        td_hours == (schedule - t_now) \div 60
    IN  IF schedule = None THEN 85
        ELSE IF td_hours < 6 \/ is_on THEN 100
        ELSE IF td_hours < 20 THEN 98
        ELSE IF td_hours < 40 THEN 95
        ELSE IF td_hours < 60 THEN 93
        ELSE 85

\* arguments of calculate_charger_current_adjustment: the excess far below,
\* around and far above the target, every current of the charger
CurrentAdjustmentCalls ==
    [fn : {"calculate_charger_current_adjustment"},
     current_excess : {-20000, -5000, -1000, -700, 0, 500, 690, 700, 1380,
                       3000, 5000, 6000, 20000},
     target_excess : {0, 1000},
     configured_phases : {1, 3},
     configured_current : min_current..max_current]

\* the periods of a result: n entries from the start, half an hour apart
MergeDetail(n, t0) ==
    [i \in 1..n |-> [period_start |-> t0 + (i - 1) * PeriodMinutes,
                     battery_energy |-> i * KWh]]

\* a SetpointResult over n periods
MergeA(n) ==
    [setpoint |-> -500, min_bat |-> 2 * KWh, t_min_bat |-> CoreNow + PeriodMinutes,
     max_bat |-> 8 * KWh, t_max_bat |-> CoreNow + 2 * PeriodMinutes,
     max_feedin |-> 1000, t_max_feedin |-> CoreNow + PeriodMinutes,
     setpoint_spread |-> 10000, prices_mean |-> 250, prices_std |-> 50,
     max_battery_power_target |-> 8000, detail |-> MergeDetail(n, CoreNow)]

\* the results it is merged with: extremes below, at and above those of a,
\* earlier and later, no period or one period after those of a
MergeB ==
    [setpoint : {-20}, min_bat : {1 * KWh, 2 * KWh, 3 * KWh},
     t_min_bat : {CoreNow, CoreNow + PeriodMinutes},
     max_bat : {7 * KWh, 8 * KWh, 9 * KWh},
     t_max_bat : {CoreNow + 2 * PeriodMinutes, CoreNow + 5 * PeriodMinutes},
     max_feedin : {0, 2000},
     t_max_feedin : {CoreNow, CoreNow + 5 * PeriodMinutes},
     setpoint_spread : {500000}, prices_mean : {250}, prices_std : {50},
     max_battery_power_target : {4000},
     detail : {<<>>, MergeDetail(1, CoreNow + (MaxPeriods + 1) * PeriodMinutes)}]

\* arguments of merge_setpoint_results: the split before, within, at the end
\* of and after the periods of a
MergeCalls ==
    [fn : {"merge_setpoint_results"},
     a : {MergeA(n) : n \in 1..MaxPeriods},
     b : MergeB,
     t_split : {CoreNow + k * PeriodMinutes : k \in -1..MaxPeriods}]

\* number of weekdays with events in a schedule
MaxDays == 3

\* the events of a weekday: a drive over the day, a drive over midnight
\* (its to-time earlier than its from-time) and an evening drive
DayEvents ==
    LET day == [from |-> 7 * 60, to |-> 17 * 60, required |-> None, distance |-> 50]
        night == [from |-> 22 * 60, to |-> 6 * 60, required |-> 9000, distance |-> None]
        evening == [from |-> 18 * 60, to |-> 19 * 60, required |-> None, distance |-> None]
    IN  {<<day>>, <<night>>, <<evening, day>>}

\* weekday names of a schedule, one of them not a weekday
DayNames == {"monday", "wednesday", "sunday", "someday"}

\* the schedule data: the events of up to MaxDays names, each name once
ScheduleData ==
    {d \in UNION {[1..n -> DayNames \X DayEvents] : n \in 1..MaxDays} :
        \A i, j \in DOMAIN d : i # j => d[i][1] # d[j][1]}

\* arguments of parse_full_schedule, today being any day of a week
ParseScheduleCalls ==
    [fn : {"parse_full_schedule"},
     schedule_data : ScheduleData,
     default_required_soc : {8000},
     today : 0..6]

\* minutes to the departure, around each step of the limit
DepartureMinutes ==
    {-60, 0, 359, 360, 1199, 1200, 2399, 2400, 3000, 3599, 3600, 4200}

\* the next departure, or none, and whether a drive is ongoing, for
\* _get_ev_smart_charge_limit and for the handler smart_charge_limit
SmartChargeLimitCalls ==
    [fn : {"smart_charge_limit"},
     schedule : {None} \cup {CoreNow + m : m \in DepartureMinutes},
     active_schedule : BOOLEAN]

\* the arguments of get_auto_inverter_mode: SOC in 1/100 percent, prices in
\* EUR/1000, powers in W
InverterModeCalls ==
    [fn : {"get_auto_inverter_mode"},
     ev_is_charging : BOOLEAN,
     surplus_energy : {0, 1 * KWh},
     pv_power : {0, 2000},
     daily_avg_power : {500},
     battery_soc : {3000, 6000, 9000},
     target_soc : {5000, 8000},
     electricity_price : {100, 300},
     min_discharge_price : {200},
     max_charge_price : {0, 250},
     charge_limit_percent : {0, 5000, 10000},
     force_charge_switch : BOOLEAN]

\* the periods of the forecast of auto_setpoint_target, the first of them
\* begun 10 minutes before t_now
HorizonPeriods == MaxPeriods + 3

HorizonStarts(t_now) ==
    [k \in 1..HorizonPeriods |-> t_now - 10 + (k - 1) * PeriodMinutes]

\* a SetpointResult whose detail holds the periods of the horizon that
\* begin after `after` and not after `upto`, each marked with the simulation
\* it is from: 1 kWh the global one, 2 kWh the window's, 3 kWh the rest's
SimulationOf(t_now, after, upto, mark) ==
    LET Within(t) == after < t /\ t <= upto
        starts == SelectSeq(HorizonStarts(t_now), Within)
    IN  [MergeA(1) EXCEPT
            !.max_battery_power_target = 1000 * mark,
            !.detail = [i \in DOMAIN starts |->
                           [period_start |-> starts[i],
                            battery_energy |-> mark * KWh]]]

\* the locals of auto_setpoint_target at lines 1618-1632: before and after
\* 08:00, the window ending at one of the periods after its start
FinalResultCalls ==
    UNION {{[fn |-> "final_result", t_now |-> t, t_end |-> HorizonStarts(t)[k]] :
                k \in {j \in 1..HorizonPeriods :
                           HorizonStarts(t)[j] > window_start(t)}} :
           t \in {7 * 60 + 40, 11 * 60 + 10}}

\* initial_result, the simulation of the whole forecast
FinalInitial(c) == SimulationOf(c.t_now, 0, c.t_now + 1440, 1)

\* new_result, the simulation of price_forecast (lines 1560, 1580-1589)
FinalWindow(c) == SimulationOf(c.t_now, window_start(c.t_now), c.t_end, 2)

\* rest_result, the last result of the search over rest_forecast (lines
\* 1600-1614), and no result when no period begins after t_end
FinalRest(c) ==
    LET rest == SimulationOf(c.t_now, c.t_end, c.t_now + 1440, 3)
    IN  IF rest.detail = <<>> THEN NoResult ELSE Returned(<<rest>>)

CoreInit ==
    /\ NoSim /\ NoTasks /\ NoCharger
    /\ fn_out = Idle
    /\ \/ fn_in \in ChargeActionCalls /\ store = EmptyStore
       \/ fn_in \in CurrentAdjustmentCalls /\ store = EmptyStore
       \/ fn_in \in MergeCalls /\ store = EmptyStore
       \/ fn_in \in ParseScheduleCalls /\ store = EmptyStore
       \/ fn_in \in InverterModeCalls /\ store = EmptyStore
       \/ fn_in \in FinalResultCalls /\ store = EmptyStore
       \/ /\ fn_in \in SmartChargeLimitCalls
          /\ store = [EmptyStore EXCEPT
                          !.next_event = fn_in.schedule,
                          !.drive_ongoing = IF fn_in.active_schedule
                                            THEN "on" ELSE "off"]

\* _get_charge_action is applied to the arguments
_get_charge_action_call ==
    /\ fn_in.fn = "_get_charge_action" /\ fn_out.status = "idle"
    /\ fn_out' = [status |-> "returned",
                  value |-> _get_charge_action(fn_in.next_drive, fn_in.current_soc,
                      fn_in.required_soc, fn_in.energy_needed, fn_in.excess_power,
                      fn_in.excess_target, fn_in.surplus_energy,
                      fn_in.smart_charge_limit, fn_in.smart_limiter_active,
                      fn_in.configured_phases, fn_in.configured_current,
                      fn_in.is_low_price, fn_in.pv_total_power, fn_in.battery_soc,
                      HYSTERESIS_BUFFER, fn_in.is_charging, CoreNow,
                      fn_in.battery_discharging)]
    /\ UNCHANGED <<fn_in, cfg, sim, store, tasks, outputs, clock,
                   last_ev_charging_phase_change>>

\* _get_ev_smart_charge_limit is applied to the arguments
_get_ev_smart_charge_limit_call ==
    /\ fn_in.fn = "smart_charge_limit" /\ fn_out.status = "idle"
    /\ fn_out' = [status |-> "returned",
                  value |-> _get_ev_smart_charge_limit(fn_in.schedule, CoreNow,
                                                      fn_in.active_schedule)]
    /\ UNCHANGED <<fn_in, cfg, sim, store, tasks, outputs, clock,
                   last_ev_charging_phase_change>>

\* the handler smart_charge_limit runs and sets EV.smart_charge_limit
smart_charge_limit_run ==
    /\ fn_in.fn = "smart_charge_limit" /\ store.smart_charge_limit = None
    /\ store' = [store EXCEPT
                    !.smart_charge_limit = smart_charge_limit(store, CoreNow)]
    /\ UNCHANGED <<fn_in, fn_out, cfg, sim, tasks, outputs, clock,
                   last_ev_charging_phase_change>>

\* calculate_charger_current_adjustment is applied to the arguments
calculate_charger_current_adjustment_call ==
    /\ fn_in.fn = "calculate_charger_current_adjustment"
    /\ fn_out.status = "idle"
    /\ fn_out' = [status |-> "returned",
                  value |-> calculate_charger_current_adjustment(
                      fn_in.current_excess, fn_in.target_excess,
                      fn_in.configured_phases, fn_in.configured_current)]
    /\ UNCHANGED <<fn_in, cfg, sim, store, tasks, outputs, clock,
                   last_ev_charging_phase_change>>

\* merge_setpoint_results is applied to the arguments
merge_setpoint_results_call ==
    /\ fn_in.fn = "merge_setpoint_results" /\ fn_out.status = "idle"
    /\ fn_out' = [status |-> "returned",
                  value |-> merge_setpoint_results(fn_in.a, fn_in.b, fn_in.t_split)]
    /\ UNCHANGED <<fn_in, cfg, sim, store, tasks, outputs, clock,
                   last_ev_charging_phase_change>>

\* parse_full_schedule is applied to the arguments
parse_full_schedule_call ==
    /\ fn_in.fn = "parse_full_schedule" /\ fn_out.status = "idle"
    /\ fn_out' = [status |-> "returned",
                  value |-> parse_full_schedule(fn_in.schedule_data,
                                fn_in.default_required_soc, fn_in.today)]
    /\ UNCHANGED <<fn_in, cfg, sim, store, tasks, outputs, clock,
                   last_ev_charging_phase_change>>

\* get_auto_inverter_mode is applied to the arguments
get_auto_inverter_mode_call ==
    /\ fn_in.fn = "get_auto_inverter_mode" /\ fn_out.status = "idle"
    /\ fn_out' = [status |-> "returned",
                  value |-> get_auto_inverter_mode(
                      fn_in.ev_is_charging, fn_in.surplus_energy, fn_in.pv_power,
                      fn_in.daily_avg_power, fn_in.battery_soc, fn_in.target_soc,
                      fn_in.electricity_price, fn_in.min_discharge_price,
                      fn_in.max_charge_price, fn_in.charge_limit_percent,
                      fn_in.force_charge_switch)]
    /\ UNCHANGED <<fn_in, cfg, sim, store, tasks, outputs, clock,
                   last_ev_charging_phase_change>>

\* lines 1618-1632 of auto_setpoint_target are applied to the results of the
\* three simulations
final_result_call ==
    /\ fn_in.fn = "final_result" /\ fn_out.status = "idle"
    /\ fn_out' = final_result([t_now |-> fn_in.t_now], FinalInitial(fn_in),
                      window_start(fn_in.t_now), fn_in.t_end,
                      FinalWindow(fn_in), FinalRest(fn_in))
    /\ UNCHANGED <<fn_in, cfg, sim, store, tasks, outputs, clock,
                   last_ev_charging_phase_change>>

CoreNext ==
    \/ _get_charge_action_call
    \/ parse_full_schedule_call
    \/ merge_setpoint_results_call
    \/ calculate_charger_current_adjustment_call
    \/ _get_ev_smart_charge_limit_call
    \/ smart_charge_limit_run
    \/ get_auto_inverter_mode_call
    \/ final_result_call

SpecCore == CoreInit /\ [][CoreNext]_vars

\* a call of fn has returned
ReturnedFrom(fn) == fn_in.fn = fn /\ fn_out.status = "returned"

\* hoursAvailable < 2 and currentSOC < requiredSOC - 1
TimePressure ==
    /\ fn_in.next_drive # None
    /\ fn_in.next_drive - CoreNow < 2 * 60
    /\ fn_in.current_soc < fn_in.required_soc - 100

\* the call is made with the charger off and a smart charge limit below 100
ChargeHysteresis == ~fn_in.is_charging /\ fn_in.smart_charge_limit < 100

\* energy_needed <= 0 and the surplus energy, less the 3 kWh reserve and the
\* 2 kWh of hysteresis, at most 1 kWh
NothingToCharge ==
    /\ fn_in.energy_needed <= 0
    /\ fn_in.surplus_energy - 3 * KWh - (IF ChargeHysteresis THEN 2 * KWh ELSE 0)
           <= 1 * KWh

\* the smart limiter is active with a limit below 100 that the soc is over
SmartLimitReached ==
    /\ fn_in.smart_limiter_active /\ fn_in.smart_charge_limit < 100
    /\ fn_in.current_soc
           > (fn_in.smart_charge_limit - (IF ChargeHysteresis THEN 1 ELSE 0)) * 100

\* C11 as claimed: with less than 2 hours available and the soc more than 1
\* below the required soc, _get_charge_action returns on, 3 phases, 16 A for
\* every value of the remaining inputs
C11_EmergencyCharge_AllInputs ==
    (ReturnedFrom("_get_charge_action") /\ TimePressure)
        => fn_out.value = <<ChargeAction.on, 3, 16>>

\* C11 amended: with less than 2 hours available and the soc more than 1
\* below the required soc, _get_charge_action returns on, 3 phases, 16 A
\* unless no energy is needed (with a surplus of at most 1 kWh) or the active
\* smart charge limit is exceeded, whatever the price and the excess power
C11_EmergencyCharge ==
    (ReturnedFrom("_get_charge_action") /\ TimePressure
        /\ ~NothingToCharge /\ ~SmartLimitReached)
        => fn_out.value = <<ChargeAction.on, 3, 16>>

\* an emergency charge at a high price with the excess power negative
C11_Witness ==
    /\ ReturnedFrom("_get_charge_action") /\ TimePressure
    /\ ~NothingToCharge /\ ~SmartLimitReached
    /\ ~fn_in.is_low_price /\ fn_in.excess_power < 0
    /\ fn_out.value = <<ChargeAction.on, 3, 16>>

\* C12: _get_charge_action returns off whenever energy_needed <= 0 and
\* surplus_energy <= 1 kWh, whatever the other inputs
C12_OffWhenNothingNeeded ==
    (ReturnedFrom("_get_charge_action")
        /\ fn_in.energy_needed <= 0 /\ fn_in.surplus_energy <= 1 * KWh)
        => fn_out.value[1] = ChargeAction.off

\* off with nothing needed and no surplus, under time pressure, at a low
\* price, while charging
C12_Witness ==
    /\ ReturnedFrom("_get_charge_action") /\ TimePressure
    /\ fn_in.energy_needed = 0 /\ fn_in.surplus_energy = 0
    /\ fn_in.is_low_price /\ fn_in.is_charging
    /\ fn_out.value[1] = ChargeAction.off

\* whole hours to the departure of the call
HoursToDeparture == (fn_in.schedule - CoreNow) \div 60

\* the step function of the smart charge limit
SmartChargeLimitStep ==
    IF fn_in.schedule = None THEN 85
    ELSE IF HoursToDeparture < 6 \/ fn_in.active_schedule THEN 100
    ELSE IF HoursToDeparture < 20 THEN 98
    ELSE IF HoursToDeparture < 40 THEN 95
    ELSE IF HoursToDeparture < 60 THEN 93
    ELSE 85

\* C13: _get_ev_smart_charge_limit and the handler smart_charge_limit give
\* the same step function of the whole hours to departure: 100 below 6 h or
\* with a drive ongoing, 98 below 20 h, 95 below 40 h, 93 below 60 h, 85
\* otherwise and with no schedule
C13_SameStepFunction ==
    (ReturnedFrom("smart_charge_limit") /\ store.smart_charge_limit # None)
        => /\ fn_out.value = SmartChargeLimitStep
           /\ store.smart_charge_limit = SmartChargeLimitStep

\* C14: for every configured current in 6..16 A and every excess and
\* target, calculate_charger_current_adjustment returns d with -4 <= d <= 4
\* and 6 <= current + d <= 16, and d > 0 for an excess 5000 W above the
\* target at 3 phases and 6 A
C14_AdjustmentBounds ==
    ReturnedFrom("calculate_charger_current_adjustment")
        => /\ fn_out.value \in -4..4
           /\ fn_in.configured_current + fn_out.value \in 6..16
           /\ (/\ fn_in.current_excess - fn_in.target_excess = 5000
               /\ fn_in.configured_phases = 3
               /\ fn_in.configured_current = 6) => fn_out.value > 0

\* the adjustment for an excess 5000 W above the target at 3 phases and 6 A
\* is cut to 4, and at 14 A to 2
C14_Witness ==
    /\ ReturnedFrom("calculate_charger_current_adjustment")
    /\ fn_in.current_excess - fn_in.target_excess = 5000
    /\ fn_in.configured_phases = 3
    /\ \/ fn_in.configured_current = 6 /\ fn_out.value = 4
       \/ fn_in.configured_current = 14 /\ fn_out.value = 2

\* merge_setpoint_results was called with a b of no periods
MergedWithEmpty ==
    ReturnedFrom("merge_setpoint_results") /\ fn_in.b.detail = <<>>

\* the split time is not before a period of a
SplitAfterAll ==
    \A i \in DOMAIN fn_in.a.detail : fn_in.a.detail[i].period_start <= fn_in.t_split

\* the extremes of b are within those of a and not timed to replace them
NeutralExtremes ==
    /\ fn_in.b.min_bat >= fn_in.a.min_bat
    /\ fn_in.b.max_bat <= fn_in.a.max_bat
    /\ fn_in.b.max_feedin <= fn_in.a.max_feedin
    /\ fn_in.b.t_min_bat >= fn_in.a.t_min_bat
    /\ fn_in.b.t_max_bat <= fn_in.a.t_max_bat
    /\ fn_in.b.t_max_feedin <= fn_in.a.t_max_feedin

\* C15 as claimed: merge_setpoint_results(a, b, t) with a b of no periods
\* returns a, detail and summary statistics, for every split time t
C15_MergeEmptyIsIdentity_AllSplits ==
    MergedWithEmpty => fn_out.value = fn_in.a

\* C15 amended: merge_setpoint_results(a, b, t) with a b of no periods
\* returns the periods of a up to t, which are all of a when t is not before
\* a period of a, and the extremes over a and b, which are those of a when
\* those of b are within them
C15_MergeEmptyIsIdentity ==
    MergedWithEmpty =>
        /\ \A i \in DOMAIN fn_out.value.detail :
              /\ fn_out.value.detail[i] = fn_in.a.detail[i]
              /\ fn_in.a.detail[i].period_start <= fn_in.t_split
        /\ SplitAfterAll => fn_out.value.detail = fn_in.a.detail
        /\ (SplitAfterAll /\ NeutralExtremes) => fn_out.value = fn_in.a

\* a result of several periods is merged, at its end, with a result of no
\* periods and of extremes within its own, and comes back as it was
C15_Witness ==
    /\ MergedWithEmpty /\ SplitAfterAll /\ NeutralExtremes
    /\ Len(fn_in.a.detail) > 1
    /\ fn_out.value = fn_in.a

\* days from today to the next day of the weekday name, today included
DaysUntil(day_name) ==
    CHOOSE k \in 0..6 : weekday(fn_in.today + k) = day_map[day_name]

\* the positions <<d, e>> of the events under weekday names in the schedule
\* data
RecognisedEvents ==
    UNION {{<<d, e>> : e \in DOMAIN fn_in.schedule_data[d][2]} :
           d \in {x \in DOMAIN fn_in.schedule_data :
                     fn_in.schedule_data[x][1] \in DOMAIN day_map}}

\* the start that the event at a position is to have
ExpectedStart(pos) ==
    (fn_in.today + DaysUntil(fn_in.schedule_data[pos[1]][1])) * 1440
        + fn_in.schedule_data[pos[1]][2][pos[2]].from

\* C16: parse_full_schedule puts each event of a weekday name on the next
\* day of that weekday, 0 to 6 days from today, skips the events under other
\* names, and returns the entries in ascending order of start
C16_NextOccurrenceSorted ==
    ReturnedFrom("parse_full_schedule") =>
        /\ Len(fn_out.value) = Cardinality(RecognisedEvents)
        /\ \A pos \in RecognisedEvents :
              \E i \in DOMAIN fn_out.value :
                  fn_out.value[i].start = ExpectedStart(pos)
        /\ \A i \in DOMAIN fn_out.value :
              /\ Day(fn_out.value[i].start) - fn_in.today \in 0..6
              /\ \E pos \in RecognisedEvents :
                    fn_out.value[i].start = ExpectedStart(pos)
        /\ \A i \in 1..(Len(fn_out.value) - 1) :
              fn_out.value[i].start <= fn_out.value[i + 1].start

\* a schedule with events under a name that is no weekday and under two
\* weekdays, the later of them first, has been parsed
C16_Witness ==
    /\ ReturnedFrom("parse_full_schedule")
    /\ \E d \in DOMAIN fn_in.schedule_data :
          fn_in.schedule_data[d][1] \notin DOMAIN day_map
    /\ \E d1, d2 \in DOMAIN fn_in.schedule_data :
          /\ d1 < d2
          /\ fn_in.schedule_data[d1][1] \in DOMAIN day_map
          /\ fn_in.schedule_data[d2][1] \in DOMAIN day_map
          /\ DaysUntil(fn_in.schedule_data[d1][1])
                 > DaysUntil(fn_in.schedule_data[d2][1])
    /\ Len(fn_out.value) >= 2

\* C17: every entry that parse_full_schedule produces has start < end, for
\* every from and to time of the schedule, a to-time earlier than the
\* from-time included
C17_StartBeforeEnd ==
    ReturnedFrom("parse_full_schedule") =>
        \A i \in DOMAIN fn_out.value : fn_out.value[i].start < fn_out.value[i].end


\* ---------------------------------------------------------------------
\* forecast_setpoint without any PV production

\* the forecast handed to forecast_setpoint has no PV production in any
\* period and one price throughout
NoPvConstantPrice ==
    /\ Details # <<>>
    /\ \A i \in DOMAIN Details : Details[i].pv_estimate = 0
    /\ \A i, j \in DOMAIN Details : Details[i].price = Details[j].price

\* C18: when the PV estimate is 0 in every forecast period and the price is
\* constant, the battery energy recorded by forecast_setpoint never rises
\* from one period to the next and never exceeds the energy the simulation
\* started with, and the feed-in recorded for every period is 0
C18_NoPvNoFreeEnergy ==
    NoPvConstantPrice =>
        \A i \in DOMAIN Details :
            /\ Details[i].feedin_energy = 0
            /\ Details[i].battery_energy <= Max(0, cfg.battery_energy)
            /\ i > 1 => Details[i].battery_energy <= Details[i - 1].battery_energy

\* a finished simulation of several periods without PV in which the battery
\* is drained from one period to the next
C18_Witness ==
    /\ sim.status = "done"
    /\ NoPvConstantPrice
    /\ Len(Details) >= 2
    /\ \E i \in 2..Len(Details) :
            Details[i].battery_energy < Details[i - 1].battery_energy


\* ---------------------------------------------------------------------
\* get_auto_inverter_mode

\* price < max charge price, battery SOC < target and < charge limit
ForceChargeCase ==
    /\ fn_in.electricity_price < fn_in.max_charge_price
    /\ fn_in.battery_soc < fn_in.target_soc
    /\ fn_in.battery_soc < fn_in.charge_limit_percent

\* the branches before the force charge would not leave the inverter on: the
\* EV charges without surplus or PV, or the price is low and the battery
\* below its target
OtherBranchNotOn ==
    \/ /\ fn_in.ev_is_charging
       /\ fn_in.surplus_energy <= 0
       /\ fn_in.pv_power <= 6 * 230 + fn_in.daily_avg_power
    \/ /\ ~fn_in.ev_is_charging
       /\ fn_in.electricity_price < fn_in.min_discharge_price
       /\ fn_in.battery_soc < Max(500, fn_in.target_soc)

\* C19: get_auto_inverter_mode returns mode on, charge limit 3000 and force
\* charge switch on whenever price < max_charge_price, battery_soc <
\* target_soc and battery_soc < charge_limit_percent, whatever the EV and
\* low-price branches chose; in every other case the limit and the switch
\* are -1 and off when the force-charge switch was on, and both None when
\* it was off
C19_ForceChargeOverrides ==
    ReturnedFrom("get_auto_inverter_mode")
        => IF ForceChargeCase
           THEN fn_out.value = <<InverterMode.on, 3000, "on">>
           ELSE /\ fn_in.force_charge_switch
                    => fn_out.value[2] = -1 /\ fn_out.value[3] = "off"
                /\ ~fn_in.force_charge_switch
                    => fn_out.value[2] = None /\ fn_out.value[3] = Unknown

\* the force charge has overridden a branch that chose off or charger only
C19_Witness ==
    /\ ReturnedFrom("get_auto_inverter_mode")
    /\ ForceChargeCase /\ OtherBranchNotOn
    /\ fn_out.value = <<InverterMode.on, 3000, "on">>


\* ---------------------------------------------------------------------
\* the final result of the windowed refinement in auto_setpoint_target

\* the periods of a detail list that begin not after t
UpTo(detail, t) ==
    LET NotAfter(e) == e.period_start <= t
    IN  SelectSeq(detail, NotAfter)

\* the detail list of the rest simulation, empty when there is none
RestDetail ==
    IF FinalRest(fn_in).status = "returned"
    THEN Last(FinalRest(fn_in).value).detail ELSE <<>>

----------------------------------------------------------------------------
(* setpoint_binary_search, one iteration at a time                          *)

\* the states auto_setpoint_target searches in: a battery of 15 kWh just
\* above its minimum of 1.6 kWh, well filled or full, little or much PV, the
\* feed-in target unset (4000 W) or 1000 W
SearchStores ==
    {[BaseStore EXCEPT !.battery_capacity = 15 * KWh,
                       !.battery_energy = energy,
                       !.epex_prices = EpexPrices,
                       !.pv_forecast = pv,
                       !.auto_setpoint = "on",
                       !.max_pv_feedin_target = pv_feedin] :
        energy \in {17 * (KWh \div 10), 12 * KWh, 15 * KWh},
        pv \in PvForecasts(MaxPeriods),
        pv_feedin \in {None, 1000}}

\* the locals of auto_setpoint_target that the search reads
SearchCtx == auto_setpoint_target_locals(store, StartMinute)

\* epex_pv_forecast, line 1365
SearchForecast ==
    get_pv_forecast_with_prices(store, StartMinute, StartMinute + 24 * 60,
                                store.epex_prices).value

\* the parameters of the calls: the search over the setpoint (lines
\* 1490-1497), over the spread (lines 1504-1510), over both, and a call that
\* updates neither; the EV energy is given
SearchParameters(ctx) ==
    {[setpoint_binary_search_defaults(ctx) EXCEPT
          !.ev_energy = ctx.ev_energy,
          !.update_setpoint = m[1], !.update_spread = m[2],
          !.current_setpoint = IF m[1] THEN None ELSE -500,
          !.current_spread = IF m[2] THEN None ELSE 10000] :
        m \in BOOLEAN \X BOOLEAN}

SearchInit ==
    /\ NoSim /\ NoTasks /\ NoCharger
    /\ store \in SearchStores
    /\ fn_in \in {[fn |-> "setpoint_binary_search", p |-> p] :
                     p \in SearchParameters(SearchCtx)}
    /\ fn_out = Idle

\* lines 1414-1419: the assertions, and the locals before the loop
setpoint_binary_search_call ==
    /\ fn_in.fn = "setpoint_binary_search" /\ fn_out.status = "idle"
    /\ fn_out' =
          IF search_assertion_fails(fn_in.p) THEN Raised
          ELSE [status |-> "running", itr |-> 0, p |-> fn_in.p, before |-> fn_in.p,
                search_results |-> <<>>, too_low |-> FALSE, too_much |-> FALSE]
    /\ UNCHANGED <<fn_in, cfg, sim, store, tasks, outputs, clock,
                   last_ev_charging_phase_change>>

\* what an iteration leaves behind: r the result of its simulation
search_iteration(ctx, o, r) ==
    IF r.status = "raised" THEN Raised
    ELSE IF search_converged(o.p)
    THEN [o EXCEPT !.status = "returned", !.before = o.p,
                   !.search_results = Append(@, r.value),
                   !.too_low = FALSE, !.too_much = FALSE]
    ELSE [o EXCEPT !.itr = @ + 1, !.before = o.p,
                   !.p = search_narrow(ctx, o.p, r.value),
                   !.search_results = Append(@, r.value),
                   !.too_low = r.value.min_bat < ctx.battery_min_energy + KWh \div 10,
                   !.too_much = /\ r.value.min_bat >= ctx.battery_min_energy + KWh \div 10
                                /\ r.value.max_feedin > ctx.max_pv_feedin]

\* lines 1421-1467: one pass of the loop
setpoint_binary_search_iteration ==
    /\ fn_in.fn = "setpoint_binary_search" /\ fn_out.status = "running"
    /\ fn_out.itr < max_iters
    /\ fn_out' = search_iteration(SearchCtx, fn_out,
                    forecast_setpoint_local(SearchCtx, store, SearchForecast,
                        search_setpoint(fn_out.p), search_spread(fn_out.p),
                        fn_out.p.battery_energy, None, None,
                        fn_out.p.with_ev_charging, fn_out.p.ev_energy,
                        fn_out.p.max_battery_power_target))
    /\ UNCHANGED <<fn_in, cfg, sim, store, tasks, outputs, clock,
                   last_ev_charging_phase_change>>

\* line 1469: the loop has run max_iters times
setpoint_binary_search_return ==
    /\ fn_in.fn = "setpoint_binary_search" /\ fn_out.status = "running"
    /\ fn_out.itr >= max_iters
    /\ fn_out' = [fn_out EXCEPT !.status = "returned"]
    /\ UNCHANGED <<fn_in, cfg, sim, store, tasks, outputs, clock,
                   last_ev_charging_phase_change>>

SearchNext ==
    \/ setpoint_binary_search_call
    \/ setpoint_binary_search_iteration
    \/ setpoint_binary_search_return

SpecSearch == SearchInit /\ [][SearchNext]_vars

\* the search is in its loop or has returned
Searching == fn_out.status \in {"running", "returned"}

\* the candidate of the last simulation
LastResult == Last(fn_out.search_results)

\* x lies between lo and hi
Between(lo, x, hi) == lo <= x /\ x <= hi

\* the interval of q is narrower than the tolerance: 50 W for the setpoint,
\* 1e-3 for the spread
Narrow(q) ==
    \/ q.update_setpoint /\ Abs(q.max_setpoint - q.min_setpoint) < 50
    \/ q.update_spread /\ Abs(q.max_spread - q.min_spread) < 100

\* the interval of q lies within that of o, for the setpoint and the spread
Within(q, o) ==
    /\ o.min_setpoint <= q.min_setpoint /\ q.min_setpoint <= q.max_setpoint
    /\ q.max_setpoint <= o.max_setpoint
    /\ o.min_spread <= q.min_spread /\ q.min_spread <= q.max_spread
    /\ q.max_spread <= o.max_spread

\* C21: setpoint_binary_search runs at most max_iters simulations and no
\* simulation after one whose interval was narrower than the tolerance; the
\* candidate of every simulation lies between the bounds it was taken from;
\* the bounds stay within the initial range and within those of the
\* iteration before; a minimum battery that is too low leaves the upper
\* setpoint bound alone, a feed-in that is too high leaves the lower one
\* alone; and the iterations return what the function returns as a whole
C21_SearchNarrows ==
    Searching =>
        /\ Len(fn_out.search_results) <= max_iters
        /\ Len(fn_out.search_results) \in {fn_out.itr, fn_out.itr + 1}
        /\ fn_out.search_results # <<>> =>
              /\ fn_in.p.update_setpoint =>
                    Between(fn_out.before.min_setpoint, LastResult.setpoint,
                            fn_out.before.max_setpoint)
              /\ fn_in.p.update_spread =>
                    Between(fn_out.before.min_spread, LastResult.setpoint_spread,
                            fn_out.before.max_spread)
        /\ Within(fn_out.p, fn_in.p)
        /\ Within(fn_out.p, fn_out.before)
        /\ fn_out.too_low => fn_out.p.max_setpoint = fn_out.before.max_setpoint
        /\ fn_out.too_much => fn_out.p.min_setpoint = fn_out.before.min_setpoint
        /\ (fn_out.status = "running" /\ fn_out.itr > 0) => ~Narrow(fn_out.before)
        /\ fn_out.status = "returned" =>
              /\ Len(fn_out.search_results) = max_iters \/ Narrow(fn_out.p)
              /\ fn_out.search_results =
                    setpoint_binary_search(SearchCtx, store, SearchForecast,
                                           fn_in.p).value

\* a search over the setpoint that has lowered its upper bound after a
\* feed-in too high and has stopped before max_iters simulations with an
\* interval below 50 W
C21_Witness ==
    /\ fn_in.fn = "setpoint_binary_search" /\ fn_out.status = "returned"
    /\ fn_in.p.update_setpoint /\ ~fn_in.p.update_spread
    /\ Len(fn_out.search_results) \in 2..(max_iters - 1)
    /\ fn_out.p.max_setpoint < fn_in.p.max_setpoint
    /\ fn_out.p.max_setpoint - fn_out.p.min_setpoint < 50

\* a search that has raised its lower setpoint bound after a minimum battery
\* too low
SearchRaisedLowerBound ==
    /\ Searching /\ fn_out.too_low
    /\ fn_out.p.min_setpoint > fn_out.before.min_setpoint

----------------------------------------------------------------------------
(* The extremes that forecast_setpoint tracks                               *)

\* the simulation is in its loop or has returned
Simulating == sim.status \in {"running", "done"}

\* the battery energies of the simulation so far: the one it started from
\* and those recorded for the periods
BatteryLevels ==
    {cfg.battery_energy} \cup {Details[i].battery_energy : i \in DOMAIN Details}

\* the first period whose recorded battery energy is level
FirstPeriodAt(level) ==
    CHOOSE i \in DOMAIN Details :
        /\ Details[i].battery_energy = level
        /\ \A j \in 1..(i - 1) : Details[j].battery_energy # level

\* C22: min_bat and max_bat of forecast_setpoint are the minimum and the
\* maximum of the initial battery energy and the battery energies recorded
\* for the periods; t_min_bat is the start, and t_max_bat the end, of the
\* first period that reached the extremum (t_now when no period went beyond
\* the initial energy), so a later period with an equal value does not
\* overwrite them; and the returned result carries these values
C22_BatteryExtremes ==
    Simulating =>
        /\ sim.min_forecast_battery \in BatteryLevels
        /\ sim.max_forecast_battery \in BatteryLevels
        /\ \A level \in BatteryLevels :
              /\ sim.min_forecast_battery <= level
              /\ level <= sim.max_forecast_battery
        /\ sim.t_min_bat =
              IF sim.min_forecast_battery < cfg.battery_energy
              THEN Details[FirstPeriodAt(sim.min_forecast_battery)].period_start
              ELSE cfg.t_now
        /\ sim.t_max_bat =
              IF sim.max_forecast_battery > cfg.battery_energy
              THEN Details[FirstPeriodAt(sim.max_forecast_battery)].period_start
                   + Details[FirstPeriodAt(sim.max_forecast_battery)].period_minutes
              ELSE cfg.t_now
        /\ sim.status = "done" =>
              /\ fn_out.min_bat = sim.min_forecast_battery
              /\ fn_out.t_min_bat = sim.t_min_bat
              /\ fn_out.max_bat = sim.max_forecast_battery
              /\ fn_out.t_max_bat = sim.t_max_bat

\* a finished simulation in which the battery was drained below its initial
\* energy to a minimum that two periods share, and t_min_bat is the start of
\* the first of them
C22_Witness ==
    /\ sim.status = "done"
    /\ fn_out.min_bat < cfg.battery_energy
    /\ \E i, j \in DOMAIN Details :
          /\ i < j
          /\ Details[i].battery_energy = fn_out.min_bat
          /\ Details[j].battery_energy = fn_out.min_bat
          /\ \A k \in 1..(i - 1) : Details[k].battery_energy > fn_out.min_bat
          /\ fn_out.t_min_bat = Details[i].period_start


\* period i of the detail feeds in at least as much power as period j
FeedsInAtLeast(i, j) ==
    Details[i].feedin_energy * Details[j].period_minutes
        >= Details[j].feedin_energy * Details[i].period_minutes

\* the first of the periods with the largest feed-in
LargestFeedin ==
    CHOOSE i \in DOMAIN Details :
        /\ \A j \in DOMAIN Details : FeedsInAtLeast(i, j)
        /\ \A j \in 1..(i - 1) : ~FeedsInAtLeast(j, i)

\* C23: the max_feedin that forecast_setpoint returns is the largest feedin
\* of the periods in its detail, 0 when no period feeds in, and t_max_feedin
\* is the start of the first period with that feed-in
C23_MaxFeedinIsLargest ==
    (sim.status = "done" /\ Details # <<>>) =>
        IF Details[LargestFeedin].feedin_energy > 0
        THEN /\ fn_out.max_feedin * Details[LargestFeedin].period_minutes
                    = Details[LargestFeedin].feedin_energy
             /\ fn_out.t_max_feedin = Details[LargestFeedin].period_start
        ELSE fn_out.max_feedin = 0


\* the EV charges in the period simulated last
ChargedLastPeriod == Details # <<>> /\ Last(Details).ev_charge_power > 0

\* C24: after a simulated period in which the EV charges, the tracked EV
\* energy is not above ev_capacity * smart_charge_limit / 100, the cap under
\* which is_charging_possible allows charging
C24_EvEnergyWithinSmartLimit ==
    (Simulating /\ ChargedLastPeriod) =>
        sim.ev_energy * 100 <= EvCap * sim.smart_charge_limit


----------------------------------------------------------------------------
(* The last rules of _get_charge_action                                     *)

\* hours_available_to_charge of the call, in minutes
MinutesAvailable ==
    IF fn_in.next_drive # None THEN fn_in.next_drive - CoreNow ELSE 999 * 60

\* surplus_energy and excess_target after lines 114-123
AdjustedSurplus ==
    fn_in.surplus_energy - 3 * KWh - (IF ChargeHysteresis THEN 2 * KWh ELSE 0)

AdjustedTarget ==
    fn_in.excess_target + (IF ChargeHysteresis THEN 1000 ELSE 0)

\* the emergency rule matches: less than 2 hours, or less than the energy
\* needs at 3 phases and 15 A, and the soc more than 1 below the required
EmergencyRule ==
    /\ \/ MinutesAvailable < 2 * 60
       \/ MinutesAvailable * (3 * voltage * (max_current - 1)) < fn_in.energy_needed
    /\ fn_in.current_soc < fn_in.required_soc - 100

\* the rule for a high price is reached and matches: no rule before it does,
\* the price is high, the surplus at most 0 and the excess below its target
HighPriceRule ==
    /\ ~NothingToCharge /\ ~SmartLimitReached /\ ~EmergencyRule
    /\ ~fn_in.is_charging
    /\ ~fn_in.is_low_price
    /\ AdjustedSurplus <= 0
    /\ fn_in.excess_power < AdjustedTarget

\* hoursAvailable < requiredChargeTime - 0.5, the charge time at 3 phases
\* and 16 A
ChargeTimePressure ==
    (MinutesAvailable + 30) * (3 * voltage * max_current) < fn_in.energy_needed

\* C25: when the rule for a high price decides (the surplus at most 0, the
\* excess below its target, no earlier rule matching), _get_charge_action
\* does not return off under time pressure, the time available being more
\* than half an hour short of the time the charge needs
C25_HighPriceOffUnlessPressed ==
    (ReturnedFrom("_get_charge_action") /\ HighPriceRule /\ ChargeTimePressure)
        => fn_out.value[1] # ChargeAction.off


----------------------------------------------------------------------------
(* _get_charge_action with its decision fed back                            *)

\* the decisions of one run
MaxDecisions == 10

\* the inputs that stay as they are, and the charger's state at the start
ChargeLoopCalls ==
    [fn : {"charge_loop"},
     next_drive : {None, CoreNow + 600},
     current_soc : {5000, 8450, 9000},
     required_soc : {8000, 9500},
     energy_needed : {0, 6 * KWh},
     excess_power : {0 - 1000, 500, 3000},
     excess_target : {0},
     surplus_energy : {0, 4 * KWh, 8 * KWh},
     smart_charge_limit : {85, 100},
     smart_limiter_active : BOOLEAN,
     is_low_price : BOOLEAN,
     pv_total_power : {0, 2000},
     battery_soc : {5000},
     battery_discharging : BOOLEAN,
     is_charging : BOOLEAN,
     configured_phases : {1, 3},
     configured_current : {6, 7, 16}]

\* energy.py lines 935, 985 and 1072: the charger as the simulation starts
\* with it (1 phase, 7 A or 6 A, the control switch as read), or as a
\* decision before left it
LoopInit ==
    /\ NoSim /\ NoTasks /\ NoCharger
    /\ store = EmptyStore
    /\ fn_in \in ChargeLoopCalls
    /\ fn_out = [status |-> "looping", is_charging_ev |-> fn_in.is_charging,
                 charge_phases |-> fn_in.configured_phases,
                 charge_current |-> fn_in.configured_current,
                 decisions |-> <<>>]

\* energy.py lines 1039-1062: what the decision r leaves in the locals o
charge_feedback(o, r) ==
    [o EXCEPT !.is_charging_ev = r[1] = ChargeAction.on,
              !.charge_phases = r[2],
              !.charge_current = IF r[2] # o.charge_phases
                                 THEN (IF r[2] = 1 THEN 8 ELSE 6)
                                 ELSE r[3],
              !.decisions = Append(@, r[1])]

\* one decision with the locals the decision before it left
charge_decision ==
    /\ fn_in.fn = "charge_loop" /\ fn_out.status = "looping"
    /\ Len(fn_out.decisions) < MaxDecisions
    /\ fn_out' = charge_feedback(fn_out,
                    _get_charge_action(fn_in.next_drive, fn_in.current_soc,
                        fn_in.required_soc, fn_in.energy_needed, fn_in.excess_power,
                        fn_in.excess_target, fn_in.surplus_energy,
                        fn_in.smart_charge_limit, fn_in.smart_limiter_active,
                        fn_out.charge_phases, fn_out.charge_current,
                        fn_in.is_low_price, fn_in.pv_total_power, fn_in.battery_soc,
                        HYSTERESIS_BUFFER, fn_out.is_charging_ev, CoreNow,
                        fn_in.battery_discharging))
    /\ UNCHANGED <<fn_in, cfg, sim, store, tasks, outputs, clock,
                   last_ev_charging_phase_change>>

LoopNext == charge_decision

SpecLoop == LoopInit /\ [][LoopNext]_vars

\* the decisions so far, when the loop runs
Decisions == IF fn_in.fn = "charge_loop" THEN fn_out.decisions ELSE <<>>

\* C26: with the inputs held as they are and each decision fed back as
\* is_charging, phases and current, the decisions of _get_charge_action never
\* go from on to off and back to on
C26_NoOnOffOn ==
    \A i, j, k \in DOMAIN Decisions :
        (i < j /\ j < k) =>
            ~(/\ Decisions[i] = ChargeAction.on
              /\ Decisions[j] = ChargeAction.off
              /\ Decisions[k] = ChargeAction.on)


----------------------------------------------------------------------------
(* set_phases_and_current while the cooldown is active                      *)

\* task i runs its body in this step and calls set_phases_and_current with
\* a phase count that is not the configured one, the last phase change
\* being less than 15 minutes old
CooldownCall(i) ==
    /\ tasks[i].pc = "body"
    /\ tasks[i].fn \in {"auto_ev_charging", "enable_force_charge"}
    /\ tasks'[i].loc # NoLocals
    /\ tasks'[i].loc.phases # get(store, "phases", 3)
    /\ last_ev_charging_phase_change > clock - CooldownTicks

\* the service calls of this step
NewOutputs == {k \in DOMAIN outputs' : k > Len(outputs)}

\* the step of task i switches no phases, leaves the timestamp, and the
\* control switch is set by nothing but the caller of the call: line 122
\* before it, the turn_on_charger of auto_ev_charging after it
PhasesSwitchAndTimestampKept(i) ==
    /\ store'.phases = store.phases
    /\ last_ev_charging_phase_change' = last_ev_charging_phase_change
    /\ \A k \in NewOutputs :
          /\ outputs'[k].id \notin {"set_phases_and_current", "turn_off"}
          /\ outputs'[k].id = "turn_on" => tasks'[i].loc.then_on
    /\ \/ store'.control_switch = store.control_switch
       \/ tasks'[i].loc.then_on /\ store'.control_switch = "on"
       \/ tasks[i].fn = "enable_force_charge" /\ store'.control_switch = "True"

\* the current asked for is one that set_current sets
CurrentInBounds(current) == min_current <= current /\ current <= max_current

\* C27 as claimed: a call of set_phases_and_current with a phase count that
\* is not the configured one, made while the cooldown of 15 minutes is
\* active, changes nothing: not the phase count, not the current setting of
\* the charger, not the control switch, not the timestamp of the last change
C27_CooldownCallChangesNothing ==
    [][\A i \in DOMAIN tasks :
          CooldownCall(i) =>
              /\ PhasesSwitchAndTimestampKept(i)
              /\ store'.current_setting = store.current_setting]_vars

\* C27 amended: such a call leaves the phase count, the control switch and
\* the timestamp of the last change as they are, and sets the current
\* setting of the charger to the current asked for when that is within
\* min_current and max_current
C27_CooldownCallSetsCurrentOnly ==
    [][\A i \in DOMAIN tasks :
          CooldownCall(i) =>
              /\ PhasesSwitchAndTimestampKept(i)
              /\ store'.current_setting =
                    IF CurrentInBounds(tasks'[i].loc.current)
                    THEN tasks'[i].loc.current
                    ELSE store.current_setting]_vars

\* a handler has called set_phases_and_current for a phase count that is not
\* the configured one and has ended with the phases as they were, having set
\* the current
C27_Witness ==
    \E i \in DOMAIN tasks :
        /\ tasks[i].pc = "done"
        /\ tasks[i].loc # NoLocals
        /\ tasks[i].loc.phases # get(store, "phases", 3)
        /\ last_ev_charging_phase_change > clock - CooldownTicks
        /\ \E k \in DOMAIN outputs :
              /\ outputs[k].task = i /\ outputs[k].id = "set_value"
              /\ outputs[k].value = tasks[i].loc.current
              /\ store.current_setting = tasks[i].loc.current


\* C28: every phase-switch command of set_phases_and_current is issued while
\* the control switch of the charger is off, in auto_ev_charging and in
\* enable_force_charge alike
C28_PhaseSwitchWhileOff ==
    [][\A k \in NewOutputs :
          outputs'[k].id = "set_phases_and_current"
              => ~get_bool(store', "control_switch", FALSE)]_vars


\* C29: with the planned drives ongoing and energy still needed,
\* auto_ev_charging goes on without a next drive, as if the time to charge
\* had no end, and comes to one branch of its charging strategy: it does not
\* end in an exception
C29_OngoingDriveStillDecides ==
    \A i \in DOMAIN tasks :
        (/\ tasks[i].fn = "auto_ev_charging"
         /\ get_bool(store, "drive_ongoing", FALSE)
         /\ auto_ev_charging_locals(store, now(clock)).energy_needed > 0)
            => tasks[i].pc # "raised"


----------------------------------------------------------------------------
(* forecast_surplus with its forecast there                                 *)

\* the PV forecast with prices as forecast_surplus gets it (line 698)
SurplusForecast ==
    get_pv_forecast_with_prices(store, now(clock), now(clock) + 80 * 60,
                                store.epex_prices)

\* the battery readings are there and the forecast has 2 periods or more
SurplusForecastAvailable ==
    /\ ~BatteryUnavailable
    /\ SurplusForecast.status = "returned"
    /\ Len(SurplusForecast.value) >= 2

\* the outcome writes the state id
Writes(o, id) == \E k \in DOMAIN o.writes : o.writes[k].id = id

\* C30: with the battery capacity and energy there and a PV forecast of at
\* least 2 periods, forecast_surplus runs to its end and publishes the
\* energy surplus and the energy surplus after EV charging, also when the
\* schedule of planned drives is empty
C30_SurplusPublished ==
    SurplusForecastAvailable =>
        \A i \in Ran("forecast_surplus") :
            /\ tasks[i].outcome.status = "returned"
            /\ Writes(tasks[i].outcome, "energy_surplus")
            /\ Writes(tasks[i].outcome, "energy_surplus_after_ev_charging")

====
